---- MODULE Spec2Model ----
(***************************************************************************)
(* A model of the PProto stream socket engine (transport/base.cpp):        *)
(* the send queues of SocketCommon, the worker loop Socket::run of a       *)
(* client socket and of the listener-side socket it is connected to, and   *)
(* the two byte streams between them.                                      *)
(*                                                                         *)
(*   Spec         a connection from connect() to the end of both workers,  *)
(*                with send(), stop(), socket failures, a hung link and    *)
(*                the echo timer                                           *)
(*   SpecLive     the connection of two incompatible builds, the threads   *)
(*                scheduled fairly                                         *)
(*   SpecSign     the handshake of a client of either format, encrypted or *)
(*                not, with a listener of either build                     *)
(*   SpecUnknown  a connection on which the client sends a command the     *)
(*                listener's program does not know                         *)
(*   SpecFrame    a connection of either format whose client sends         *)
(*                messages around the compression limit                    *)
(*   SpecProps    a socket and a listener whose compression level the      *)
(*                application sets, or leaves alone, before they connect   *)
(*   SpecSched    the scheduler of an established connection under         *)
(*                send() calls of all priorities                           *)
(*   SpecPreload  the scheduler with all messages queued beforehand        *)
(*   SpecFlood    the scheduler under an application that never stops      *)
(*                sending, the worker scheduled fairly                     *)
(***************************************************************************)
EXTENDS Integers, Sequences, FiniteSets, TLC

(* ------------------------------ bounds -------------------------------- *)

\* user send() calls in the connection specification
MaxSend == 1
\* frames the transport holds before socketBytesToWrite() stays non-zero
WireCap == 2
\* EchoConnection commands a client generates after its first one
MaxEcho == 1
\* environment faults (stop(), socket error, hung link, handshake timeout)
MaxFaults == 1
\* user send() calls in the specification of the unknown commands
MaxUnknown == 3
\* user send() calls in the scheduler specification
MaxSched == 7
\* user send() calls in the specification of the frames
MaxFrame == 2
\* user send() calls in the specification of the properties
MaxProps == 1
\* calls of setCompressionLevel on one object
MaxSet == 1
\* the operations applied to one message
MaxOps == 3
\* calls of Listener::send in the specification of the listener
MaxCalls == 2
\* calls of RouteCommands::forwarding
MaxForward == 3
\* steps of the clock of the forwarder
MaxTicks == 2
\* calls of the setters of a socket, and of remove()
MaxApiCalls == 2
\* user send() calls in the specification of remove()
MaxRemoveSend == 3
\* user send() calls in the specification of delivery
MaxDeliver == 2
\* messages waiting in the queues of a socket the application keeps sending on
MaxQueue == 2
\* messages of each priority queued before the worker dequeues
MaxPreHigh == 1
MaxPreNorm == 10
MaxPreLow == 10

(* ------------------------- program constants -------------------------- *)

\* base.cpp:929  if (_messagesNormCounter < 5)
NormLimit == 5

\* message.cpp:709, 722, 736: the most tags a message is meant to hold
TagLimit == 255

\* message.h:426: quint64(-1), the value of _maxTimeLife that means none
NoTimeLife == -1

\* base.h:104-105: the in-class initializers of Properties
CompressionLevelDefault == 0
CompressionSizeDefault == 1024
\* the seconds a relayed command without a time of life is waited for
\* (routing.cpp:83)
RecordLife == 10

Sides == {"client", "listener"}

Peer(s) == IF s = "client" THEN "listener" ELSE "client"

isListenerSide(s) == s = "listener"

\* base.cpp:158-171, the table Socket::Socket fills
ProtocolMap ==
    << [messageFormat |-> "QBinary", encryption |-> FALSE, signature |-> "82c40273"],
       [messageFormat |-> "Json",    encryption |-> FALSE, signature |-> "fea6b958"],
       [messageFormat |-> "QBinary", encryption |-> TRUE,  signature |-> "6ae8b2c0"],
       [messageFormat |-> "Json",    encryption |-> TRUE,  signature |-> "5980f24b"] >>

\* the table of a build without PPROTO_JSON_SERIALIZE (base.cpp:160-171)
ProtocolMapNoJson == SelectSeq(ProtocolMap, LAMBDA sign : sign.messageFormat # "Json")

\* QUuidEx(), the null uuid, as a signature
NullSignature == "00000000"

\* crypto_box_PUBLICKEYBYTES, and the length a key of another program has
PublicKeyBytes == 32

ForeignKeyBytes == 16

\* QUuidEx(), the null uuid, as a message id
NullId == <<"", "", 0>>

\* commands of commands/base.h that the engine itself handles, and the pool
PoolCommands == {"Unknown", "Error", "ProtocolCompatible", "CloseConnection",
                 "EchoConnection", "User"}

\* the command that only the program of the client registers in its pool
PrivateCommands(s) == IF isListenerSide(s) THEN {} ELSE {"Private"}

\* command::pool().commandExists in the program of side s
commandExists(s, command) == command \in PoolCommands \cup PrivateCommands(s)

(* ------------------------------ messages ------------------------------ *)

\* message.h:369-433 and the constructor (message.cpp:59-64): a message as
\* the in-class initializers leave it; the bit fields of _flags are all zero,
\* which reads as type Unknown, priority High, content format QBinary
MessageNew ==
    [id |-> NullId, command |-> "",
     protocolVersionLow |-> 0, protocolVersionHigh |-> 0,
     type |-> "Unknown", execStatus |-> "Unknown", priority |-> "High",
     compression |-> "None", contentFormat |-> "QBinary", notEmpty |-> {},
     flags2 |-> 0, tags |-> <<>>, maxTimeLife |-> NoTimeLife, proxyId |-> 0,
     accessId |-> "", content |-> "",
     socketType |-> "Unknown", sourcePoint |-> "", socketDescriptor |-> -1,
     socketName |-> "", auxiliary |-> 0,
     destinationPoints |-> {}, destinationSockets |-> {}]

\* Message::create: a Command of Normal priority, no content, no tags; the
\* versions are those of the build (message.h:372-373)
MessageCreate(id, command, contentFormat, ver) ==
    [MessageNew EXCEPT !.id = id, !.command = command, !.type = "Command",
                       !.execStatus = "Unknown", !.priority = "Normal",
                       !.compression = "None", !.contentFormat = contentFormat,
                       !.protocolVersionLow = ver[1],
                       !.protocolVersionHigh = ver[2]]

\* a copy of the whole of m made an answer: the content and the
\* destinations go with it
cloneForAnswerWhole(m) ==
    [m EXCEPT !.type = "Answer", !.execStatus = "Success", !.compression = "None"]

\* Message::cloneForAnswer (message.cpp:82-109): a new message takes the
\* listed members of m, _flags with its not-empty bits among them; the
\* content and the destinations are not taken; type, execStatus and
\* compression are set
cloneForAnswer(m) ==
    [MessageNew EXCEPT
        !.id = m.id, !.command = m.command,
        !.protocolVersionLow = m.protocolVersionLow,
        !.protocolVersionHigh = m.protocolVersionHigh,
        !.priority = m.priority, !.contentFormat = m.contentFormat,
        !.notEmpty = m.notEmpty,
        !.flags2 = m.flags2, !.tags = m.tags, !.maxTimeLife = m.maxTimeLife,
        !.proxyId = m.proxyId, !.accessId = m.accessId,
        !.socketType = m.socketType, !.sourcePoint = m.sourcePoint,
        !.socketDescriptor = m.socketDescriptor, !.socketName = m.socketName,
        !.auxiliary = m.auxiliary,
        !.type = "Answer", !.execStatus = "Success", !.compression = "None"]

\* Message::tag (message.cpp:707-718); lst::inRange(index, 0, 255) holds for
\* 0 <= index < 255
tag(m, index) ==
    IF index \notin 0..(TagLimit - 1) THEN 0
    ELSE IF index >= Len(m.tags) THEN 0
    ELSE m.tags[index + 1]

\* Message::setTag (message.cpp:720-731): the vector grows to index + 1,
\* the new elements are zero
setTag(m, val, index) ==
    IF index \notin 0..(TagLimit - 1) THEN m
    ELSE LET count == IF index >= Len(m.tags) THEN index + 1 ELSE Len(m.tags)
         IN  [m EXCEPT !.tags =
                [i \in 1..count |->
                    IF i = index + 1 THEN val
                    ELSE IF i <= Len(m.tags) THEN m.tags[i] ELSE 0]]

\* Message::setTags (message.cpp:733-742)
setTags(m, val) ==
    [m EXCEPT !.tags = IF Len(val) > TagLimit THEN SubSeq(val, 1, TagLimit) ELSE val]

\* no message is at hand: what the connection specifications keep in codec
CodecIdle ==
    [operation |-> "none", count |-> 0, message |-> MessageNew,
     origin |-> MessageNew, answer |-> MessageNew, stream |-> <<>>,
     doc |-> [members |-> {}], val |-> <<>>, index |-> 0]

\* the descriptors of the sockets a listener with several connections
\* accepts, and the type of its sockets (tcp.cpp:262)
ListenerFds == {5, 6, 7}

ListenerSocketType == "Tcp"

\* the listener of the connection specifications, seen as a set: nothing
\* accepted, nothing sent
ListenerIdle ==
    [phase |-> [fd \in ListenerFds |-> "absent"], count |-> 0,
     call |-> [message |-> MessageNew, excludeSockets |-> {}, list |-> {},
               offered |-> {}, error |-> FALSE]]

\* the two points of a RouteCommands object (routing.h:44-53)
Points == {1, 2}

\* a RouteCommands object as constructed (routing.h:40-56): no socket at
\* either point, nothing transferred; the connection specifications keep
\* it so
RouteIdle ==
    [point |-> [i \in Points |-> [socket |-> FALSE, transferredCommands |-> <<>>]],
     curTime |-> 1, count |-> 0, ticks |-> 0, relayed |-> <<>>,
     call |-> [message |-> MessageNew, res |-> FALSE, sent |-> {},
               before |-> [i \in Points |-> <<>>], curTime |-> 1]]

\* no setter and no remove() was called yet
ApiIdle ==
    [count |-> 0, removed |-> {},
     last |-> [name |-> "none", side |-> "client", val |-> 0, locked |-> FALSE,
               connected |-> FALSE, before |-> <<>>]]

contentIsEmpty(m) == m.content = ""

(* ------------------------------- state -------------------------------- *)

VARIABLES
    \* configuration, fixed at construction
    version,                    \* PPROTO_VERSION_LOW, PPROTO_VERSION_HIGH of each build
    checkProtocolCompatibility, \* Properties::_checkProtocolCompatibility
    checkUnknownCommands,       \* SocketCommon::_checkUnknownCommands
    onlyEncrypted,              \* Properties::_onlyEncrypted
    protocolMap,                \* Socket::_protocolMap of each build
    compressionLevel,           \* Properties::_compressionLevel
    compressionSize,            \* Properties::_compressionSize
    loopback,                   \* whether the peer address of the socket is a loopback one
    compressionLevelAsked,      \* the values setCompressionLevel was called with
    apiCalls,                   \* the application's calls of the setters and of remove(), and the last one
    codec,                      \* a Message apart from any socket, and what was made of it
    listenerSockets,            \* Listener::_sockets of a listener with several sockets, and its last send
    route,                      \* a RouteCommands object, its clock and what it has relayed
    \* SocketCommon
    messagesHigh, messagesNorm, messagesLow, messagesNormCounter,
    unknownCommands,
    \* Socket
    protocolCompatible, messageFormat, encryption, echoTimeout,
    isInsideListener,
    \* the worker thread: QThreadEx flags and the locals of Socket::run
    pc, threadStop, internalMessages, acceptMessages,
    commandCloseConnectionId, commandEchoConnectionId, echoExpired,
    \* the connection: socket state of each end, frames in flight, a hung link
    sock, wire, stalled,
    \* Socket::_initSocketDescriptor, and the descriptors emit disconnected() was given
    initSocketDescriptor, disconnectedEmitted,
    \* bookkeeping of the environment
    sendCount, echoCount, faults,
    \* observations: socketWrite of a frame, emit message(), emit connected(),
    \* log_error of a discarded message, send() returning true
    written, delivered, connectedCount, dropLog, accepted,
    \* the values _protocolCompatible was given, one after the other
    protocolCompatibleHeld,
    \* whether the writes are recorded in written
    observed

cfgVars   == <<version, checkProtocolCompatibility, checkUnknownCommands, onlyEncrypted,
               protocolMap, compressionLevel, compressionSize, loopback,
               compressionLevelAsked, apiCalls, codec, listenerSockets,
               route, observed>>
queueVars == <<messagesHigh, messagesNorm, messagesLow, messagesNormCounter>>
sockVars  == <<protocolCompatible, messageFormat, encryption, echoTimeout,
               isInsideListener, unknownCommands>>
runVars   == <<pc, threadStop, internalMessages, acceptMessages,
               commandCloseConnectionId, commandEchoConnectionId, echoExpired>>
netVars   == <<sock, wire, stalled, initSocketDescriptor, disconnectedEmitted>>
envVars   == <<sendCount, echoCount, faults>>
obsVars   == <<written, delivered, connectedCount, dropLog, accepted,
               protocolCompatibleHeld>>

vars == <<cfgVars, queueVars, sockVars, runVars, netVars, envVars, obsVars>>


(* ---------------------------- construction ---------------------------- *)

\* the protocol window of the listener's build, and the windows of the
\* client's build: the same, overlapping in one version, and disjoint
ListenerWindow == <<1, 2>>

Windows == {<<1, 2>>, <<2, 3>>, <<3, 4>>}

EchoTimeouts == {-1000, 0, 1000}

EmptyQueues == [s \in Sides |-> <<>>]

\* the builds and settings the connection is run with: every window with
\* the check on at both ends, the disjoint window with the check off at
\* either end or both, the echo with the same and the disjoint window, and
\* a negative echo timeout with the same window
Configs ==
    {c \in [window : Windows, check : [Sides -> BOOLEAN], echo : EchoTimeouts] :
        \/ c.echo = 0 /\ c.check = [s \in Sides |-> TRUE]
        \/ c.echo = 0 /\ c.window = <<3, 4>>
        \/ c.echo > 0 /\ c.check = [s \in Sides |-> TRUE] /\ c.window # <<2, 3>>
        \/ c.echo < 0 /\ c.check = [s \in Sides |-> TRUE] /\ c.window = ListenerWindow}

\* the configuration of the two builds and of the client socket
InitConfig ==
    \E c \in Configs :
        /\ version = [s \in Sides |-> IF isListenerSide(s) THEN ListenerWindow ELSE c.window]
        /\ checkProtocolCompatibility = c.check
        /\ checkUnknownCommands = [s \in Sides |-> TRUE]
        /\ onlyEncrypted = FALSE
        /\ protocolMap = [s \in Sides |-> ProtocolMap]
        /\ compressionLevel = [s \in Sides |-> CompressionLevelDefault]
        /\ compressionLevelAsked = [s \in Sides |-> <<>>]
        /\ apiCalls = ApiIdle
        /\ codec = CodecIdle
        /\ listenerSockets = ListenerIdle
        /\ route = RouteIdle
        /\ compressionSize = [s \in Sides |-> CompressionSizeDefault]
        /\ loopback = [s \in Sides |-> FALSE]
        /\ messageFormat = [s \in Sides |-> "QBinary"]
        /\ encryption = [s \in Sides |-> FALSE]
        /\ echoTimeout = [s \in Sides |-> IF isListenerSide(s) THEN 0 ELSE c.echo]

\* the members as their in-class initializers leave them (base.h:134-147,
\* base.h:285-309), the worker not started
InitSocket ==
    /\ messagesHigh = EmptyQueues
    /\ messagesNorm = EmptyQueues
    /\ messagesLow = EmptyQueues
    /\ messagesNormCounter = [s \in Sides |-> 0]
    /\ unknownCommands = [s \in Sides |-> {}]
    /\ protocolCompatible = [s \in Sides |-> "Unknown"]
    /\ isInsideListener = FALSE
    /\ pc = [s \in Sides |-> "off"]
    /\ threadStop = [s \in Sides |-> FALSE]
    /\ internalMessages = EmptyQueues
    /\ acceptMessages = EmptyQueues
    /\ commandCloseConnectionId = [s \in Sides |-> NullId]
    /\ commandEchoConnectionId = [s \in Sides |-> NullId]
    /\ echoExpired = [s \in Sides |-> FALSE]

InitNet ==
    /\ sock = [s \in Sides |-> "none"]
    /\ wire = EmptyQueues
    /\ stalled = FALSE
    /\ initSocketDescriptor = [s \in Sides |-> -1]
    /\ disconnectedEmitted = EmptyQueues

InitObs ==
    /\ sendCount = 0
    /\ echoCount = 0
    /\ faults = 0
    /\ written = EmptyQueues
    /\ delivered = EmptyQueues
    /\ connectedCount = [s \in Sides |-> 0]
    /\ protocolCompatibleHeld = [s \in Sides |-> <<"Unknown">>]
    /\ dropLog = [s \in Sides |-> {}]
    /\ accepted = [s \in Sides |-> {}]
    /\ observed = TRUE

Init == InitConfig /\ InitSocket /\ InitNet /\ InitObs

(* ------------------------- the socket, as seen ------------------------ *)

\* QThread::isRunning
isRunning(s) == pc[s] \notin {"off", "closed"}

socketIsConnectedInternal(s) == sock[s] = "connected"

\* the frames socketRead can return: what the peer wrote, unless the link hangs
socketBytesAvailable(s) == IF stalled THEN <<>> ELSE wire[Peer(s)]

\* frames the transport did not take yet
socketBytesToWrite(s) == Len(wire[s]) > WireCap

\* SocketCommon::messagesCount
messagesCount(s) == Len(messagesHigh[s]) + Len(messagesNorm[s]) + Len(messagesLow[s])

\* pproto::protocolCompatible(low, high) of the build of side s
ProtocolCompatibleFn(s, low, high) ==
    high >= version[s][1] /\ low <= version[s][2]

\* base.cpp:346-354, the signature of the socket's (format, encryption) pair
serializeSignature(s) ==
    LET rows == {i \in 1..Len(protocolMap[s]) :
                    /\ protocolMap[s][i].messageFormat = messageFormat[s]
                    /\ protocolMap[s][i].encryption = encryption[s]}
    IN  IF rows = {} THEN NullSignature
        ELSE protocolMap[s][CHOOSE i \in rows : \A j \in rows : i <= j].signature

\* the 16 bytes of a signature (base.cpp:555-561, 726-735)
SigFrame(sig) == [kind |-> "sig", signature |-> sig]

\* the length, the reserved field and the public key (base.cpp:575-584,
\* 742-751)
KeyFrame(size) == [kind |-> "key", keySize |-> size]

\* the bits, were a time of life of zero taken for none
initNotEmptyTraitsNoZero(m) ==
    (IF m.flags2 # 0 THEN {"flags2"} ELSE {})
        \cup (IF m.tags # <<>> THEN {"tags"} ELSE {})
        \cup (IF m.maxTimeLife \notin {NoTimeLife, 0} THEN {"maxTimeLife"} ELSE {})
        \cup (IF m.content # "" THEN {"content"} ELSE {})
        \cup (IF m.proxyId # 0 THEN {"proxyId"} ELSE {})
        \cup (IF m.accessId # "" THEN {"accessId"} ELSE {})

\* Message::initNotEmptyTraits (message.cpp:276-284): the optional members
\* that hold a value other than the default
initNotEmptyTraits(m) ==
    (IF m.flags2 # 0 THEN {"flags2"} ELSE {})
        \cup (IF m.tags # <<>> THEN {"tags"} ELSE {})
        \cup (IF m.maxTimeLife # NoTimeLife THEN {"maxTimeLife"} ELSE {})
        \cup (IF m.content # "" THEN {"content"} ELSE {})
        \cup (IF m.proxyId # 0 THEN {"proxyId"} ELSE {})
        \cup (IF m.accessId # "" THEN {"accessId"} ELSE {})

\* Message::size (message.cpp:245-274): the bytes of the qbinary encoding;
\* two 16-byte identifiers, two quint16, _flags, and the members present
size(m) ==
    LET bits == initNotEmptyTraits(m) IN
    16 + 16 + 2 + 2 + 4
        + (IF "flags2" \in bits THEN 4 ELSE 0)
        + (IF "tags" \in bits THEN 1 + Len(m.tags) * 8 ELSE 0)
        + (IF "maxTimeLife" \in bits THEN 8 ELSE 0)
        + (IF "proxyId" \in bits THEN 8 ELSE 0)
        + (IF "accessId" \in bits THEN 4 + Len(m.accessId) ELSE 0)
        + (IF "content" \in bits THEN 4 + Len(m.content) ELSE 0)

RECURSIVE Digits(_)
\* the decimal digits rapidjson writes for an unsigned number
Digits(n) == IF n < 10 THEN 1 ELSE 1 + Digits(n \div 10)

RECURSIVE TagsDigits(_)
\* the digits of the elements of a tag list
TagsDigits(tags) ==
    IF tags = <<>> THEN 0 ELSE Digits(Head(tags)) + TagsDigits(Tail(tags))

\* the value of _flags without its last bit (message.h:379-419): type,
\* execStatus, priority, compression, the not-empty bits, contentFormat
FlagsValue(m) ==
    LET bits == initNotEmptyTraits(m) IN
    (CASE m.type = "Command" -> 1 [] m.type = "Answer" -> 2
       [] m.type = "Event" -> 3 [] OTHER -> 0)
    + 8 * (CASE m.execStatus = "Success" -> 1 [] m.execStatus = "Failed" -> 2
             [] m.execStatus = "Error" -> 3 [] OTHER -> 0)
    + 64 * (CASE m.priority = "Normal" -> 1 [] m.priority = "Low" -> 2 [] OTHER -> 0)
    + 256 * (CASE m.compression = "Zip" -> 1 [] m.compression = "Lzma" -> 2
               [] m.compression = "Ppmd" -> 3 [] m.compression = "Disable" -> 7
               [] OTHER -> 0)
    + (IF "tags" \in bits THEN 2048 ELSE 0)
    + (IF "maxTimeLife" \in bits THEN 4096 ELSE 0)
    + (IF "content" \in bits THEN 8192 ELSE 0)
    + (IF "proxyId" \in bits THEN 16384 ELSE 0)
    + (IF "accessId" \in bits THEN 32768 ELSE 0)
    + 16777216 * (IF m.contentFormat = "Json" THEN 1 ELSE 0)

\* the length of the text Message::toJson(false) returns (message.cpp:385-
\* 509): the keys and punctuation as written there, an identifier as 36
\* characters in quotes, a number by its digits (_flags has ten when its
\* last bit, flags2NotEmpty, is set), the content as it is
toJsonSize(m) ==
    LET bits == initNotEmptyTraits(m) IN
    2 + (5 + 38) + (11 + 38)
        + (IF m.protocolVersionLow # 0 THEN 22 + Digits(m.protocolVersionLow) ELSE 0)
        + (IF m.protocolVersionHigh # 0 THEN 23 + Digits(m.protocolVersionHigh) ELSE 0)
        + 9 + (IF "flags2" \in bits THEN 10 ELSE Digits(FlagsValue(m)))
        + (IF "flags2" \in bits THEN 10 + Digits(m.flags2) ELSE 0)
        + (IF "tags" \in bits
           THEN 10 + TagsDigits(m.tags) + (Len(m.tags) - 1) ELSE 0)
        + (IF "maxTimeLife" \in bits THEN 15 + Digits(m.maxTimeLife) ELSE 0)
        + (IF "proxyId" \in bits THEN 11 + Digits(m.proxyId) ELSE 0)
        + (IF "accessId" \in bits THEN 12 + 2 + Len(m.accessId) ELSE 0)
        + (IF "content" \in bits THEN 11 + Len(m.content) ELSE 0)

\* the _flags word as its bit fields (message.h:379-419), the not-empty
\* bits as initNotEmptyTraits has just set them
Flags(m) ==
    [type |-> m.type, execStatus |-> m.execStatus, priority |-> m.priority,
     compression |-> m.compression, contentFormat |-> m.contentFormat,
     notEmpty |-> initNotEmptyTraits(m)]

\* _flags of a constructed message (message.cpp:59): every bit clear
FlagsZero ==
    [type |-> "Unknown", execStatus |-> "Unknown", priority |-> "High",
     compression |-> "None", contentFormat |-> "QBinary", notEmpty |-> {}]

\* one value written to a QDataStream, with the type it was written as
Item(t, v) == [t |-> t, v |-> v]

\* Message::toDataStream (message.cpp:306-336): the five leading members,
\* then the members whose bit is set; the number of tags goes out as one
\* byte, quint8(_tags.size())
toDataStream(m) ==
    LET bits == initNotEmptyTraits(m) IN
    <<Item("QUuid", m.id), Item("QUuid", m.command),
      Item("quint16", m.protocolVersionLow), Item("quint16", m.protocolVersionHigh),
      Item("flags", Flags(m))>>
    \o (IF "flags2" \in bits THEN <<Item("quint32", m.flags2)>> ELSE <<>>)
    \o (IF "tags" \in bits
        THEN <<Item("quint8", Len(m.tags) % 256)>>
                 \o [i \in 1..Len(m.tags) |-> Item("quint64", m.tags[i])]
        ELSE <<>>)
    \o (IF "maxTimeLife" \in bits THEN <<Item("quint64", m.maxTimeLife)>> ELSE <<>>)
    \o (IF "proxyId" \in bits THEN <<Item("quint64", m.proxyId)>> ELSE <<>>)
    \o (IF "accessId" \in bits THEN <<Item("QByteArray", m.accessId)>> ELSE <<>>)
    \o (IF "content" \in bits THEN <<Item("QByteArray", m.content)>> ELSE <<>>)

\* operator>> of QDataStream at position p: the value there when it was
\* written as type t, the empty value of the type when the stream has
\* ended or holds something else there
Extract(stream, p, t, empty) ==
    IF p <= Len(stream) /\ stream[p].t = t THEN stream[p].v ELSE empty

\* the position after the last member Message::fromDataStream reads
\* (message.cpp:338-382)
StreamEnd(stream) ==
    LET bits  == Extract(stream, 5, "flags", FlagsZero).notEmpty
        count == \* the position of the tag count, and the count
                 LET p == 6 + (IF "flags2" \in bits THEN 1 ELSE 0)
                 IN  IF "tags" \in bits THEN 1 + Extract(stream, p, "quint8", 0) ELSE 0
    IN  6 + (IF "flags2" \in bits THEN 1 ELSE 0) + count
          + (IF "maxTimeLife" \in bits THEN 1 ELSE 0)
          + (IF "proxyId" \in bits THEN 1 ELSE 0)
          + (IF "accessId" \in bits THEN 1 ELSE 0)
          + (IF "content" \in bits THEN 1 ELSE 0)

\* Message::fromDataStream (message.cpp:338-382): the five leading members,
\* then, by the bits of the _flags just read and in the order of the
\* writer, the other members; the tags are as many as the byte read says
fromDataStream(stream) ==
    LET flags == Extract(stream, 5, "flags", FlagsZero)
        bits  == flags.notEmpty
        pTags == 6 + (IF "flags2" \in bits THEN 1 ELSE 0)
        count == IF "tags" \in bits THEN Extract(stream, pTags, "quint8", 0) ELSE 0
        pTime == pTags + (IF "tags" \in bits THEN 1 + count ELSE 0)
        pProxy  == pTime + (IF "maxTimeLife" \in bits THEN 1 ELSE 0)
        pAccess == pProxy + (IF "proxyId" \in bits THEN 1 ELSE 0)
        pContent == pAccess + (IF "accessId" \in bits THEN 1 ELSE 0)
    IN  [MessageNew EXCEPT
            !.id = Extract(stream, 1, "QUuid", NullId),
            !.command = Extract(stream, 2, "QUuid", ""),
            !.protocolVersionLow = Extract(stream, 3, "quint16", 0),
            !.protocolVersionHigh = Extract(stream, 4, "quint16", 0),
            !.type = flags.type, !.execStatus = flags.execStatus,
            !.priority = flags.priority, !.compression = flags.compression,
            !.contentFormat = flags.contentFormat, !.notEmpty = bits,
            !.flags2 = IF "flags2" \in bits
                       THEN Extract(stream, 6, "quint32", 0) ELSE @,
            !.tags = [i \in 1..count |-> Extract(stream, pTags + i, "quint64", 0)],
            !.maxTimeLife = IF "maxTimeLife" \in bits
                            THEN Extract(stream, pTime, "quint64", 0) ELSE @,
            !.proxyId = IF "proxyId" \in bits
                        THEN Extract(stream, pProxy, "quint64", 0) ELSE @,
            !.accessId = IF "accessId" \in bits
                         THEN Extract(stream, pAccess, "QByteArray", "") ELSE @,
            !.content = IF "content" \in bits
                        THEN Extract(stream, pContent, "QByteArray", "") ELSE @]

\* Message::toJson(false) (message.cpp:385-509) as the object it writes:
\* its keys, and the value under each key that is written
toJson(m) ==
    LET bits == initNotEmptyTraits(m) IN
    [members |-> {"id", "command", "flags"}
                    \cup (IF m.protocolVersionLow # 0 THEN {"protocolVersionLow"} ELSE {})
                    \cup (IF m.protocolVersionHigh # 0 THEN {"protocolVersionHigh"} ELSE {})
                    \cup bits,
     id |-> m.id, command |-> m.command,
     protocolVersionLow |-> m.protocolVersionLow,
     protocolVersionHigh |-> m.protocolVersionHigh,
     flags |-> Flags(m), flags2 |-> m.flags2, tags |-> m.tags,
     maxTimeLife |-> m.maxTimeLife, proxyId |-> m.proxyId,
     accessId |-> m.accessId, content |-> m.content]

\* Message::fromJson (message.cpp:512-667) of an object without webFlags:
\* each known key sets its member, the tag vector is resized to the length
\* of the array whatever it is; the not-empty bits are first those of the
\* keys met, then the whole of "flags" when that number is not zero
fromJson(doc) ==
    LET has(key) == key \in doc.members
        met == doc.members \cap {"flags2", "tags", "maxTimeLife", "proxyId",
                                 "accessId", "content"}
        flags == IF has("flags") THEN doc.flags ELSE FlagsZero
        used == IF flags # FlagsZero THEN flags
                ELSE [FlagsZero EXCEPT !.notEmpty = met]
    IN  [MessageNew EXCEPT
            !.id = IF has("id") THEN doc.id ELSE @,
            !.command = IF has("command") THEN doc.command ELSE @,
            !.protocolVersionLow = IF has("protocolVersionLow")
                                   THEN doc.protocolVersionLow ELSE @,
            !.protocolVersionHigh = IF has("protocolVersionHigh")
                                    THEN doc.protocolVersionHigh ELSE @,
            !.type = used.type, !.execStatus = used.execStatus,
            !.priority = used.priority, !.compression = used.compression,
            !.contentFormat = used.contentFormat, !.notEmpty = used.notEmpty,
            !.flags2 = IF has("flags2") /\ doc.flags2 # 0 THEN doc.flags2 ELSE @,
            !.tags = IF has("tags") THEN doc.tags ELSE @,
            !.maxTimeLife = IF has("maxTimeLife") THEN doc.maxTimeLife ELSE @,
            !.proxyId = IF has("proxyId") THEN doc.proxyId ELSE @,
            !.accessId = IF has("accessId") THEN doc.accessId ELSE @,
            !.content = IF has("content") THEN doc.content ELSE @]

\* Socket::isLocal (base.cpp:192-201, tcp.cpp:137-144); the lock of the
\* socket is taken to be free within the 10 ms the call waits for it
isLocal(s) == loopback[s]

\* base.cpp:985-1006: the size of the buffer the message is serialized to
SerializedSize(s, m) ==
    IF messageFormat[s] = "Json" THEN toJsonSize(m) ELSE size(m)

\* the buffer is compressed, were the limit one the size may not reach
CompressesAtLimit(s, m) ==
    /\ ~isLocal(s)
    /\ m.compression = "None"
    /\ SerializedSize(s, m) >= compressionSize[s]
    /\ compressionLevel[s] # 0

\* base.cpp:1011-1014: the buffer is compressed
Compresses(s, m) ==
    /\ ~isLocal(s)
    /\ m.compression = "None"
    /\ SerializedSize(s, m) > compressionSize[s]
    /\ compressionLevel[s] # 0

\* the sizes qCompress may return for n bytes: four bytes of length and a
\* zlib stream that is shorter than the input, or longer when the input
\* does not compress
qCompressSizes(n) == {4 + n \div 2, 4 + n + 11}

\* base.cpp:1008-1026: the buffers that may be written for the message
WriteBuffers(s, m) ==
    IF Compresses(s, m)
    THEN {[isCompressed |-> TRUE, size |-> z] : z \in qCompressSizes(SerializedSize(s, m))}
    ELSE {[isCompressed |-> FALSE, size |-> SerializedSize(s, m)]}

\* base.cpp:1029-1099: the bytes of the encrypted buffer: the flag, the
\* buffer and the padding in blocks of 16, then mac, nonce and the padded
\* buffer, each with its length
EncryptedSize(n) ==
    LET buffSize == n + 4 + 1
        block == ((buffSize \div 16) + 1) * 16
        paddingBuffSize == IF block - buffSize <= 4 THEN block + 16 ELSE block
    IN  (16 + 4) + (24 + 4) + (paddingBuffSize + 4)

\* the bytes written after the length
BodyBytes(s, buff) ==
    IF encryption[s] THEN EncryptedSize(buff.size) ELSE buff.size

\* the length, were the compression not marked in it
LengthPrefixUnsigned(s, buff) == BodyBytes(s, buff)

\* base.cpp:1094-1113: the length written before the buffer; without
\* encryption its sign tells whether the buffer is compressed
LengthPrefix(s, buff) ==
    IF encryption[s] THEN EncryptedSize(buff.size)
    ELSE IF buff.isCompressed THEN -1 * buff.size ELSE buff.size

\* a message as side s serializes, compresses and, on an encrypted
\* connection, encrypts it (base.cpp:985-1118); msg is the message the
\* parser of the peer rebuilds from the bytes
MsgFrame(s, m, buff) ==
    [kind |-> "msg", msg |-> m, messageFormat |-> messageFormat[s],
     encryption |-> encryption[s], length |-> LengthPrefix(s, buff),
     bodySize |-> BodyBytes(s, buff), isCompressed |-> buff.isCompressed]

\* base.cpp:1203-1275: the frame is one the reader's decryption and parser
\* take for what the writer meant
Readable(s, frame) ==
    frame.messageFormat = messageFormat[s] /\ frame.encryption = encryption[s]

\* base.cpp:1236-1250: the reader decompresses the buffer: by the flag
\* inside an encrypted buffer, by the sign of the length otherwise
Decompresses(s, frame) ==
    IF encryption[s] THEN frame.isCompressed ELSE frame.length < 0

\* base.cpp:1164-1173, 1236-1250: the reader takes as many bytes as the
\* writer wrote after the length, and decompresses what was compressed
Unpacks(s, frame) ==
    /\ (IF frame.length < 0 THEN -1 * frame.length ELSE frame.length) = frame.bodySize
    /\ Decompresses(s, frame) = frame.isCompressed

(* ---------------------- starting the two workers ---------------------- *)

\* the descriptor the system gives the socket of each side
SocketFd == [s \in Sides |-> IF isListenerSide(s) THEN 5 ELSE 4]

\* base.cpp:328: _initSocketDescriptor is set to the descriptor of the
\* socket that socketInit connected
SocketInit(s) ==
    /\ sock' = [sock EXCEPT ![s] = "connected"]
    /\ initSocketDescriptor' = [initSocketDescriptor EXCEPT ![s] = SocketFd[s]]
    /\ UNCHANGED disconnectedEmitted

\* the slot, were the descriptor reset before the signal is emitted
socketDisconnectedResetFirst(s) ==
    /\ disconnectedEmitted' = [disconnectedEmitted EXCEPT ![s] = Append(@, -1)]
    /\ initSocketDescriptor' = [initSocketDescriptor EXCEPT ![s] = -1]

\* Socket::socketDisconnected (base.cpp:229-233), the slot of the signal
\* QTcpSocket::disconnected (tcp.cpp:68-69), which the socket emits when it
\* leaves the connected state
socketDisconnected(s) ==
    /\ disconnectedEmitted' = [disconnectedEmitted EXCEPT ![s] =
            Append(@, initSocketDescriptor[s])]
    /\ initSocketDescriptor' = [initSocketDescriptor EXCEPT ![s] = -1]

\* Socket::connect on the client: start(), socketCreate, socketInit
\* (base.cpp:313-328) and the reset of the status (base.cpp:372)
Connect ==
    /\ pc["client"] = "off"
    /\ pc' = [pc EXCEPT !["client"] = "sigSend"]
    /\ SocketInit("client")
    /\ protocolCompatible' = [protocolCompatible EXCEPT !["client"] = "Unknown"]
    /\ UNCHANGED <<cfgVars, queueVars, messageFormat, encryption, echoTimeout,
                   isInsideListener, unknownCommands, threadStop,
                   internalMessages, acceptMessages, commandCloseConnectionId,
                   commandEchoConnectionId, echoExpired, wire, stalled,
                   envVars, obsVars>>

\* Listener::incomingConnectionInternal up to socket->start(): the accepted
\* descriptor is the connection of a client that connected; a client that is
\* gone already leaves the descriptor to be found closed
IncomingConnection ==
    /\ pc["listener"] = "off"
    /\ pc["client"] # "off"
    /\ pc' = [pc EXCEPT !["listener"] = "sigWait"]
    /\ SocketInit("listener")
    /\ protocolCompatible' = [protocolCompatible EXCEPT !["listener"] = "Unknown"]
    /\ UNCHANGED <<cfgVars, queueVars, messageFormat, encryption, echoTimeout,
                   isInsideListener, unknownCommands, threadStop,
                   internalMessages, acceptMessages, commandCloseConnectionId,
                   commandEchoConnectionId, echoExpired, wire, stalled,
                   envVars, obsVars>>

\* Listener::incomingConnectionInternal after socket->start(): the socket is
\* added to _sockets and marked (base.cpp:1611-1615)
InsertSocket ==
    /\ pc["listener"] # "off"
    /\ ~isInsideListener
    /\ isInsideListener' = TRUE
    /\ UNCHANGED <<cfgVars, queueVars, protocolCompatible, messageFormat,
                   encryption, echoTimeout, unknownCommands, runVars, netVars,
                   envVars, obsVars>>


(* ---------------------------- the handshake --------------------------- *)

\* the first echo, were a negative timeout taken for one that is set
SendsFirstEchoNonZero(s) == echoTimeout[s] # 0 /\ ~isListenerSide(s)

\* base.cpp:808: a client with a positive echo timeout sends the first echo
SendsFirstEcho(s) == echoTimeout[s] > 0 /\ ~isListenerSide(s)

\* the tag of the first echo, were the timeout not put into it
FirstEchoTagNone(s) == 0

\* base.cpp:811: the tag of the first echo
FirstEchoTag(s) == echoTimeout[s]

\* the first internal messages, were the echo added before the compatibility
FirstInternalEchoFirst(s, first, echo) ==
    IF SendsFirstEcho(s) THEN <<echo, first>> ELSE <<first>>

\* base.cpp:803-815: the ProtocolCompatible command is added first, the
\* first echo after it
FirstInternal(s, first, echo) ==
    IF SendsFirstEcho(s) THEN <<first, echo>> ELSE <<first>>

\* base.cpp:803-815: the first internal messages, added whether or not the
\* handshake succeeded; the loop is entered only if it did
AfterHandshake(s, fmt, ok) ==
    LET first == MessageCreate(<<s, "ProtocolCompatible", 0>>, "ProtocolCompatible",
                               fmt, version[s])
        echo  == setTag(MessageCreate(<<s, "EchoConnection", 0>>, "EchoConnection",
                                      fmt, version[s]),
                        FirstEchoTag(s), 0)
        withEcho == SendsFirstEcho(s)
    IN  /\ internalMessages' = [internalMessages EXCEPT ![s] =
                FirstInternal(s, first, echo)]
        /\ commandEchoConnectionId' = [commandEchoConnectionId EXCEPT ![s] =
                IF withEcho THEN echo.id ELSE @]
        /\ echoExpired' = [echoExpired EXCEPT ![s] = FALSE]
        /\ pc' = [pc EXCEPT ![s] = IF ok THEN "top" ELSE "close"]

\* what a call of libsodium or a socketRead of the key exchange returns:
\* a failure is a fault of the environment
CallOutcomes(s) ==
    IF encryption[s] /\ faults < MaxFaults THEN {"ok", "failed"} ELSE {"ok"}

\* base.cpp:553-590: the client writes its signature and, on an encrypted
\* connection, generates its keypair and writes its public key
SigSend(s) ==
    /\ pc[s] = "sigSend"
    /\ ~isListenerSide(s)
    /\ IF socketIsConnectedInternal(s)
       THEN \E keypair \in CallOutcomes(s) :
               IF keypair = "ok"
               THEN /\ wire' = [wire EXCEPT ![s] =
                            IF encryption[s]
                            THEN @ \o <<SigFrame(serializeSignature(s)),
                                        KeyFrame(PublicKeyBytes)>>
                            ELSE Append(@, SigFrame(serializeSignature(s)))]
                    /\ pc' = [pc EXCEPT ![s] = "sigWait"]
                    /\ UNCHANGED <<internalMessages, commandEchoConnectionId,
                                   echoExpired, faults>>
               ELSE /\ wire' = [wire EXCEPT ![s] =
                            Append(@, SigFrame(serializeSignature(s)))]
                    /\ faults' = faults + 1
                    /\ AfterHandshake(s, messageFormat[s], FALSE)
       ELSE /\ AfterHandshake(s, messageFormat[s], FALSE)
            /\ UNCHANGED <<wire, faults>>
    /\ UNCHANGED <<cfgVars, queueVars, sockVars, threadStop, acceptMessages,
                   commandCloseConnectionId, sock, initSocketDescriptor, disconnectedEmitted,
                   stalled, sendCount, echoCount,
                   obsVars>>

\* base.cpp:660-667: the rows of the table of side s that carry the incoming
\* signature
SignatureRows(s, sig) ==
    {i \in 1..Len(protocolMap[s]) : protocolMap[s][i].signature = sig}

FirstRow(s, rows) == protocolMap[s][CHOOSE i \in rows : \A j \in rows : i <= j]

\* the format and the encryption of the listener side, were they left as
\* they are
AdoptedKept(s, rows) ==
    [messageFormat |-> messageFormat[s], encryption |-> encryption[s]]

\* base.cpp:657-667: the listener side takes the format and the encryption
\* of the row found
Adopted(s, rows) ==
    IF isListenerSide(s) /\ rows # {}
    THEN [messageFormat |-> FirstRow(s, rows).messageFormat,
          encryption |-> FirstRow(s, rows).encryption]
    ELSE [messageFormat |-> messageFormat[s], encryption |-> encryption[s]]

\* the refusal, were the setting not looked at
RefusedNever(signatureFound, enc) == FALSE

\* base.cpp:671: only encrypted connections are allowed and this one is not
Refused(signatureFound, enc) == signatureFound /\ ~enc /\ onlyEncrypted

\* the signature written back, were it the incoming one in any case
SignatureReplyEcho(signatureFound, incomingSignature) == incomingSignature

\* base.cpp:730-733: the signature the listener side writes back
SignatureReply(signatureFound, incomingSignature) ==
    IF signatureFound THEN incomingSignature ELSE NullSignature

\* base.cpp:615-797: the signature is awaited, read and checked; the listener
\* side adopts the client's format and writes a signature back, unless a
\* public key is to be read first
SigWait(s) ==
    /\ pc[s] = "sigWait"
    /\ LET avail == socketBytesAvailable(s) IN
       IF avail = <<>>
       THEN \* CHECK_SOCKET_ERROR inside the wait (base.cpp:628)
            /\ ~socketIsConnectedInternal(s)
            /\ AfterHandshake(s, messageFormat[s], FALSE)
            /\ UNCHANGED <<wire, messageFormat, encryption>>
       ELSE LET incomingSignature == Head(avail).signature
                rows == SignatureRows(s, incomingSignature)
                signatureFound == rows # {}
                fmt == Adopted(s, rows).messageFormat
                enc == Adopted(s, rows).encryption
                reply == SignatureReply(signatureFound, incomingSignature)
                rest == [wire EXCEPT ![Peer(s)] = Tail(@)]
                awaitKey == /\ pc' = [pc EXCEPT ![s] = "keyWait"]
                            /\ UNCHANGED <<internalMessages, commandEchoConnectionId,
                                           echoExpired>>
            IN  /\ messageFormat' = [messageFormat EXCEPT ![s] = fmt]
                /\ encryption' = [encryption EXCEPT ![s] = enc]
                /\ IF isListenerSide(s)
                   THEN IF Refused(signatureFound, enc)
                        THEN /\ wire' = rest
                             /\ AfterHandshake(s, fmt, FALSE)
                        ELSE IF signatureFound /\ enc
                        THEN /\ wire' = rest
                             /\ awaitKey
                        ELSE IF ~socketIsConnectedInternal(s)
                        THEN /\ wire' = rest
                             /\ AfterHandshake(s, fmt, FALSE)
                        ELSE /\ wire' = [rest EXCEPT ![s] = Append(@, SigFrame(reply))]
                             /\ AfterHandshake(s, fmt, signatureFound)
                   ELSE /\ wire' = rest
                        /\ IF serializeSignature(s) # incomingSignature
                           THEN AfterHandshake(s, fmt, FALSE)
                           ELSE IF enc THEN awaitKey
                           ELSE AfterHandshake(s, fmt, TRUE)
    /\ UNCHANGED <<cfgVars, queueVars, protocolCompatible, echoTimeout,
                   isInsideListener, unknownCommands, threadStop, acceptMessages,
                   commandCloseConnectionId, sock, initSocketDescriptor, disconnectedEmitted,
                   stalled, envVars, obsVars>>

\* the key taken, were its length and the calls' results not looked at
KeyAcceptedAlways(frame, outcome) == TRUE

\* base.cpp:506-538, 711-722, 789-794: the key has the length of a public
\* key, it was read whole, and the keypair and the shared secret came out
KeyAccepted(frame, outcome) == frame.keySize = PublicKeyBytes /\ outcome = "ok"

\* base.cpp:482-539, 703-756 and 776-796: the peer's public key is awaited
\* and read and the shared secret derived; the listener side then writes the
\* signature and its own public key
KeyWait(s) ==
    /\ pc[s] = "keyWait"
    /\ LET avail == socketBytesAvailable(s) IN
       IF avail = <<>>
       THEN \* base.cpp:493-497
            /\ ~socketIsConnectedInternal(s)
            /\ AfterHandshake(s, messageFormat[s], FALSE)
            /\ UNCHANGED <<wire, faults>>
       ELSE \E outcome \in CallOutcomes(s) :
            LET rest == [wire EXCEPT ![Peer(s)] = Tail(@)]
            IN  /\ faults' = IF outcome = "ok" THEN faults ELSE faults + 1
                /\ IF ~KeyAccepted(Head(avail), outcome)
                   THEN /\ wire' = rest
                        /\ AfterHandshake(s, messageFormat[s], FALSE)
                   ELSE IF ~isListenerSide(s)
                   THEN /\ wire' = rest
                        /\ AfterHandshake(s, messageFormat[s], TRUE)
                   ELSE IF ~socketIsConnectedInternal(s)
                   THEN /\ wire' = rest
                        /\ AfterHandshake(s, messageFormat[s], FALSE)
                   ELSE /\ wire' = [rest EXCEPT ![s] =
                                @ \o <<SigFrame(SignatureReply(TRUE, serializeSignature(s))),
                                       KeyFrame(PublicKeyBytes)>>]
                        /\ AfterHandshake(s, messageFormat[s], TRUE)
    /\ UNCHANGED <<cfgVars, queueVars, sockVars, threadStop, acceptMessages,
                   commandCloseConnectionId, sock, initSocketDescriptor, disconnectedEmitted,
                   stalled, sendCount, echoCount,
                   obsVars>>

\* base.cpp:629-635, 498-503: the signature or the key did not come within
\* 3 s (6 s on a client)
SigTimeout(s) ==
    /\ pc[s] \in {"sigWait", "keyWait"}
    /\ socketBytesAvailable(s) = <<>>
    /\ socketIsConnectedInternal(s)
    /\ faults < MaxFaults
    /\ faults' = faults + 1
    /\ AfterHandshake(s, messageFormat[s], FALSE)
    /\ UNCHANGED <<cfgVars, queueVars, sockVars, threadStop, acceptMessages,
                   commandCloseConnectionId, netVars, sendCount, echoCount, obsVars>>

\* the peer is a program whose public key has another length
ForeignKey(s) ==
    /\ wire[s] # <<>>
    /\ Head(wire[s]) = KeyFrame(PublicKeyBytes)
    /\ faults < MaxFaults
    /\ faults' = faults + 1
    /\ wire' = [wire EXCEPT ![s] = <<KeyFrame(ForeignKeyBytes)>> \o Tail(@)]
    /\ UNCHANGED <<cfgVars, queueVars, sockVars, runVars, sock, initSocketDescriptor,
                   disconnectedEmitted, stalled,
                   sendCount, echoCount, obsVars>>

(* ------------------------------ the loop ------------------------------ *)

\* base.cpp:826-830, the condition of the idle wait
Idle(s) ==
    /\ messagesCount(s) = 0
    /\ acceptMessages[s] = <<>>
    /\ internalMessages[s] = <<>>
    /\ socketBytesAvailable(s) = <<>>

\* base.cpp:861-868, 874-879: echoTimer.hasExpired(timeout)
EchoDue(s) == echoTimeout[s] > 0 /\ echoExpired[s]

\* the next echo sent by whichever side has none awaited
SendsNextEchoAnySide(s) == commandEchoConnectionId[s] = NullId

\* base.cpp:881: the client's last EchoConnection command was answered, so
\* the next one is sent
SendsNextEcho(s) == ~isListenerSide(s) /\ commandEchoConnectionId[s] = NullId

\* base.cpp:893: the EchoConnection message made up for the application
EchoLost(s) ==
    MessageCreate(<<s, "EchoLost", 0>>, "EchoConnection", messageFormat[s], version[s])

\* base.cpp:901-908: the sending part is entered with nothing left to write
AfterTop(s) == IF socketBytesToWrite(s) THEN "recv" ELSE "send"

\* base.cpp:817-905: the head of an iteration: the stop flag, the socket
\* check, the idle wait and the echo timer
LoopTop(s) ==
    /\ pc[s] = "top"
    /\ threadStop[s] \/ ~socketIsConnectedInternal(s) \/ ~Idle(s) \/ EchoDue(s)
    /\ IF threadStop[s] \/ ~socketIsConnectedInternal(s)
       THEN /\ pc' = [pc EXCEPT ![s] = "close"]
            /\ UNCHANGED <<internalMessages, commandEchoConnectionId, echoExpired,
                           echoCount, delivered>>
       ELSE IF EchoDue(s)
       THEN IF SendsNextEcho(s)
            THEN LET m == MessageCreate(<<s, "EchoConnection", echoCount + 1>>,
                                        "EchoConnection", messageFormat[s], version[s])
                 IN  /\ commandEchoConnectionId' =
                            [commandEchoConnectionId EXCEPT ![s] = m.id]
                     /\ internalMessages' = [internalMessages EXCEPT ![s] = Append(@, m)]
                     /\ echoExpired' = [echoExpired EXCEPT ![s] = FALSE]
                     /\ echoCount' = echoCount + 1
                     /\ pc' = [pc EXCEPT ![s] = AfterTop(s)]
                     /\ UNCHANGED delivered
            ELSE LET m == EchoLost(s)
                 IN  /\ delivered' = [delivered EXCEPT ![s] = Append(@, m)]
                     /\ pc' = [pc EXCEPT ![s] = "close"]
                     /\ UNCHANGED <<internalMessages, commandEchoConnectionId,
                                    echoExpired, echoCount>>
       ELSE /\ pc' = [pc EXCEPT ![s] = AfterTop(s)]
            /\ UNCHANGED <<internalMessages, commandEchoConnectionId, echoExpired,
                           echoCount, delivered>>
    /\ UNCHANGED <<cfgVars, queueVars, sockVars, threadStop, acceptMessages,
                   commandCloseConnectionId, netVars, sendCount, faults,
                   written, connectedCount, protocolCompatibleHeld, dropLog, accepted>>


(* --------------------------- sending a frame -------------------------- *)

\* the choice of the queue, were Normal preferred when the counter is reset
PickQueueNormFirst(high, norm, low, counter) ==
    IF high # <<>> THEN [queue |-> "High", counter |-> counter]
    ELSE IF norm # <<>>
    THEN [queue |-> "Norm", counter |-> IF counter < NormLimit THEN counter + 1 ELSE 0]
    ELSE [queue |-> IF low # <<>> THEN "Low" ELSE "None", counter |-> counter]

\* the choice of the queue, were the comparison with 5 off by one
PickQueueOffByOne(high, norm, low, counter) ==
    IF high # <<>> THEN [queue |-> "High", counter |-> counter]
    ELSE IF norm # <<>> /\ counter <= NormLimit
    THEN [queue |-> "Norm", counter |-> counter + 1]
    ELSE IF norm # <<>>
    THEN [queue |-> IF low # <<>> THEN "Low" ELSE "Norm", counter |-> 0]
    ELSE [queue |-> IF low # <<>> THEN "Low" ELSE "None", counter |-> counter]

\* the choice of the queue, were the counter never reset
PickQueueNoReset(high, norm, low, counter) ==
    IF high # <<>> THEN [queue |-> "High", counter |-> counter]
    ELSE IF norm # <<>> /\ counter < NormLimit
    THEN [queue |-> "Norm", counter |-> counter + 1]
    ELSE IF low # <<>> THEN [queue |-> "Low", counter |-> counter]
    ELSE IF norm # <<>> THEN [queue |-> "Norm", counter |-> counter]
    ELSE [queue |-> "None", counter |-> counter]

\* base.cpp:924-944: which queue the next user message is released from, and
\* the new value of _messagesNormCounter
PickQueue(high, norm, low, counter) ==
    LET afterHigh == IF high # <<>> THEN "High" ELSE "None"
        afterNorm ==
            IF afterHigh = "None" /\ norm # <<>>
            THEN IF counter < NormLimit
                 THEN [queue |-> "Norm", counter |-> counter + 1]
                 ELSE [queue |-> IF low # <<>> THEN "Low" ELSE "Norm", counter |-> 0]
            ELSE [queue |-> afterHigh, counter |-> counter]
    IN  IF afterNorm.queue = "None" /\ low # <<>>
        THEN [queue |-> "Low", counter |-> afterNorm.counter]
        ELSE afterNorm

\* the refusal, were the compression of the content not looked at
JsonRefusedFormatOnly(s, m) ==
    /\ messageFormat[s] = "Json"
    /\ ~contentIsEmpty(m)
    /\ m.contentFormat # "Json"

\* base.cpp:950-970: a json-framed socket refuses content that is not json
\* or is compressed
JsonRefused(s, m) ==
    /\ messageFormat[s] = "Json"
    /\ ~contentIsEmpty(m)
    /\ \/ m.contentFormat # "Json"
       \/ m.compression \notin {"None", "Disable"}

\* base.cpp:949-1139: the released message is checked, serialized and written,
\* and the sending goes on unless the socket failed or 3*delay ms have passed
Transmit(s, m) ==
    IF JsonRefused(s, m)
    THEN /\ dropLog' = [dropLog EXCEPT ![s] = @ \cup {m.id}]
         /\ UNCHANGED <<commandCloseConnectionId, wire, written, pc>>
    ELSE /\ commandCloseConnectionId' = [commandCloseConnectionId EXCEPT ![s] =
                IF m.command = "CloseConnection" /\ m.type = "Command"
                THEN m.id ELSE @]
         /\ IF socketIsConnectedInternal(s)
            THEN /\ \E buff \in WriteBuffers(s, m) :
                        wire' = [wire EXCEPT ![s] = Append(@, MsgFrame(s, m, buff))]
                 /\ written' = [written EXCEPT ![s] =
                        IF observed THEN Append(@, m) ELSE @]
                 /\ \E expired \in BOOLEAN :
                        pc' = [pc EXCEPT ![s] = IF expired THEN "recv" ELSE "send"]
                 /\ UNCHANGED dropLog
            ELSE /\ dropLog' = [dropLog EXCEPT ![s] = @ \cup {m.id}]
                 /\ pc' = [pc EXCEPT ![s] = "close"]
                 /\ UNCHANGED <<wire, written>>

\* base.cpp:913-915: an internal message goes before any user message
SendInternal(s) ==
    /\ pc[s] = "send"
    /\ ~socketBytesToWrite(s)
    /\ internalMessages[s] # <<>>
    /\ internalMessages' = [internalMessages EXCEPT ![s] = Tail(@)]
    /\ Transmit(s, Head(internalMessages[s]))
    /\ UNCHANGED <<cfgVars, queueVars, sockVars, threadStop, acceptMessages,
                   commandEchoConnectionId, echoExpired, sock, initSocketDescriptor,
                   disconnectedEmitted, stalled, envVars,
                   delivered, connectedCount, protocolCompatibleHeld, accepted>>

\* a user message released whatever the compatibility status is
SendUserAnyStatus(s) ==
    /\ pc[s] = "send"
    /\ ~socketBytesToWrite(s)
    /\ internalMessages[s] = <<>>
    /\ messagesCount(s) # 0
    /\ LET pick == PickQueue(messagesHigh[s], messagesNorm[s], messagesLow[s],
                             messagesNormCounter[s])
           m == CASE pick.queue = "High" -> Head(messagesHigh[s])
                  [] pick.queue = "Norm" -> Head(messagesNorm[s])
                  [] pick.queue = "Low"  -> Head(messagesLow[s])
       IN  /\ messagesHigh' = [messagesHigh EXCEPT ![s] =
                    IF pick.queue = "High" THEN Tail(@) ELSE @]
           /\ messagesNorm' = [messagesNorm EXCEPT ![s] =
                    IF pick.queue = "Norm" THEN Tail(@) ELSE @]
           /\ messagesLow' = [messagesLow EXCEPT ![s] =
                    IF pick.queue = "Low" THEN Tail(@) ELSE @]
           /\ messagesNormCounter' = [messagesNormCounter EXCEPT ![s] = pick.counter]
           /\ Transmit(s, m)
    /\ UNCHANGED <<cfgVars, sockVars, threadStop, internalMessages, acceptMessages,
                   commandEchoConnectionId, echoExpired, sock, initSocketDescriptor,
                   disconnectedEmitted, stalled, envVars,
                   delivered, connectedCount, protocolCompatibleHeld, accepted>>

\* the turn of the user queues, were the internal messages not looked at
UserTurnAlways(s) == TRUE

\* base.cpp:913-916: the user queues are looked at only when no internal
\* message was released
UserTurn(s) == internalMessages[s] = <<>>

\* base.cpp:917-945: a user message is released once the protocols are known
\* to be compatible
SendUser(s) ==
    /\ pc[s] = "send"
    /\ ~socketBytesToWrite(s)
    /\ UserTurn(s)
    /\ messagesCount(s) # 0
    /\ protocolCompatible[s] = "Yes"
    /\ LET pick == PickQueue(messagesHigh[s], messagesNorm[s], messagesLow[s],
                             messagesNormCounter[s])
           m == CASE pick.queue = "High" -> Head(messagesHigh[s])
                  [] pick.queue = "Norm" -> Head(messagesNorm[s])
                  [] pick.queue = "Low"  -> Head(messagesLow[s])
       IN  /\ messagesHigh' = [messagesHigh EXCEPT ![s] =
                    IF pick.queue = "High" THEN Tail(@) ELSE @]
           /\ messagesNorm' = [messagesNorm EXCEPT ![s] =
                    IF pick.queue = "Norm" THEN Tail(@) ELSE @]
           /\ messagesLow' = [messagesLow EXCEPT ![s] =
                    IF pick.queue = "Low" THEN Tail(@) ELSE @]
           /\ messagesNormCounter' = [messagesNormCounter EXCEPT ![s] = pick.counter]
           /\ Transmit(s, m)
    /\ UNCHANGED <<cfgVars, sockVars, threadStop, internalMessages, acceptMessages,
                   commandEchoConnectionId, echoExpired, sock, initSocketDescriptor,
                   disconnectedEmitted, stalled, envVars,
                   delivered, connectedCount, protocolCompatibleHeld, accepted>>

\* base.cpp:946: nothing to send
SendNone(s) ==
    /\ pc[s] = "send"
    /\ ~socketBytesToWrite(s)
    /\ internalMessages[s] = <<>>
    /\ messagesCount(s) = 0 \/ protocolCompatible[s] # "Yes"
    /\ pc' = [pc EXCEPT ![s] = "recv"]
    /\ UNCHANGED <<cfgVars, queueVars, sockVars, threadStop, internalMessages,
                   acceptMessages, commandCloseConnectionId,
                   commandEchoConnectionId, echoExpired, netVars, envVars, obsVars>>

\* base.cpp:1121-1139: bytes stay unwritten until 3*delay ms have passed
SendFlush(s) ==
    /\ pc[s] = "send"
    /\ socketBytesToWrite(s)
    /\ pc' = [pc EXCEPT ![s] = IF socketIsConnectedInternal(s) THEN "recv" ELSE "close"]
    /\ UNCHANGED <<cfgVars, queueVars, sockVars, threadStop, internalMessages,
                   acceptMessages, commandCloseConnectionId,
                   commandEchoConnectionId, echoExpired, netVars, envVars, obsVars>>


(* -------------------------- receiving a frame ------------------------- *)

\* the status, were the setting that turns the check off not looked at
CompatibilityAlwaysChecked(s, m) ==
    IF ~ProtocolCompatibleFn(s, m.protocolVersionLow, m.protocolVersionHigh)
    THEN "No" ELSE "Yes"

\* base.cpp:384-395: the status the peer's ProtocolCompatible command gives
CompatibilityOf(s, m) ==
    IF checkProtocolCompatibility[s]
       /\ ~ProtocolCompatibleFn(s, m.protocolVersionLow, m.protocolVersionHigh)
    THEN "No" ELSE "Yes"

\* base.cpp:406-421: the request to close that an incompatible peer is sent
CloseConnectionRequest(s) ==
    [MessageCreate(<<s, "CloseConnection", 0>>, "CloseConnection",
                   messageFormat[s], version[s])
        EXCEPT !.content = "protocol_incompatible"]

\* base.cpp:1287-1288: the frame is the peer's ProtocolCompatible command
\* and the status is still unknown
IsFirstCompatible(s, m) ==
    protocolCompatible[s] = "Unknown" /\ m.command = "ProtocolCompatible"

\* the acceptance, were the status not looked at
AcceptsAnyStatus(s) == TRUE

\* base.cpp:1312: a message that is none of the three service commands is
\* put into acceptMessages only while the status is Yes
Accepts(s) == protocolCompatible[s] = "Yes"

\* the worker, were it not to wait for the listener
WaitsForListenerNever(s) == FALSE

\* base.cpp:399-400: the listener-side worker sleeps until the socket is in
\* the listener's list
WaitsForListener(s) ==
    /\ isListenerSide(s)
    /\ ~isInsideListener
    /\ socketIsConnectedInternal(s)
    /\ socketBytesAvailable(s) # <<>>
    /\ Readable(s, Head(socketBytesAvailable(s)))
    /\ LET m == Head(socketBytesAvailable(s)).msg
       IN  IsFirstCompatible(s, m) /\ m.type = "Command" /\ CompatibilityOf(s, m) = "Yes"

\* base.cpp:384-395: the values _protocolCompatible is given while the
\* peer's ProtocolCompatible command is handled: Yes first, and No after
\* it when the versions are checked and found incompatible; the member is
\* volatile and is read by other threads (base.cpp:178, 205)
StatusStores(s, m) ==
    IF CompatibilityOf(s, m) = "No" THEN <<"Yes", "No">> ELSE <<"Yes">>

\* base.cpp:374-424, processingProtocolCompatibleCommand
ProcessProtocolCompatible(s, m) ==
    IF m.type = "Command"
    THEN LET status == CompatibilityOf(s, m)
         IN  /\ protocolCompatible' = [protocolCompatible EXCEPT ![s] = status]
             /\ protocolCompatibleHeld' = [protocolCompatibleHeld EXCEPT ![s] =
                    @ \o StatusStores(s, m)]
             /\ connectedCount' = [connectedCount EXCEPT ![s] =
                    IF status = "Yes" THEN @ + 1 ELSE @]
             /\ internalMessages' = [internalMessages EXCEPT ![s] =
                    IF status = "Yes" THEN @ ELSE Append(@, CloseConnectionRequest(s))]
    ELSE UNCHANGED <<protocolCompatible, connectedCount, protocolCompatibleHeld,
                     internalMessages>>

\* the handling of CloseConnection, were the Command not answered
ProcessCloseConnectionNoAnswer(s, m, leave) ==
    /\ UNCHANGED internalMessages
    /\ delivered' = [delivered EXCEPT ![s] =
            IF m.type = "Command" THEN Append(@, m) ELSE @]
    /\ leave = (m.type = "Answer" /\ m.id = commandCloseConnectionId[s])

\* the handling of CloseConnection, were any Answer taken for the awaited one
ProcessCloseConnectionAnyAnswer(s, m, leave) ==
    /\ internalMessages' = [internalMessages EXCEPT ![s] =
            IF m.type = "Command" THEN Append(@, cloneForAnswer(m)) ELSE @]
    /\ delivered' = [delivered EXCEPT ![s] =
            IF m.type = "Command" THEN Append(@, m) ELSE @]
    /\ leave = (m.type = "Answer")

\* base.cpp:426-457 and 1293-1304, processingCloseConnectionCommand and the
\* emit of the command; TRUE in leave means loopBreak
ProcessCloseConnection(s, m, leave) ==
    /\ internalMessages' = [internalMessages EXCEPT ![s] =
            IF m.type = "Command" THEN Append(@, cloneForAnswer(m)) ELSE @]
    /\ delivered' = [delivered EXCEPT ![s] =
            IF m.type = "Command" THEN Append(@, m) ELSE @]
    /\ leave = (m.type = "Answer" /\ m.id = commandCloseConnectionId[s])

\* base.cpp:459-479, processingEchoConnectionCommand
ProcessEchoConnection(s, m) ==
    /\ echoTimeout' = [echoTimeout EXCEPT ![s] =
            IF m.type = "Command" /\ tag(m, 0) > 0 THEN tag(m, 0) ELSE @]
    /\ internalMessages' = [internalMessages EXCEPT ![s] =
            IF m.type = "Command" THEN Append(@, cloneForAnswer(m)) ELSE @]
    /\ echoExpired' = [echoExpired EXCEPT ![s] =
            IF m.type = "Command" THEN FALSE ELSE @]
    /\ commandEchoConnectionId' = [commandEchoConnectionId EXCEPT ![s] =
            IF m.type = "Answer" /\ m.id = @ THEN NullId ELSE @]

\* base.cpp:1146-1342: one pass of the receiving part: the socket check, then
\* a frame is read, parsed and handled, or nothing is there to read
RecvStep(s) ==
    /\ pc[s] = "recv"
    /\ ~WaitsForListener(s)
    /\ IF ~socketIsConnectedInternal(s)
       THEN /\ pc' = [pc EXCEPT ![s] = "close"]
            /\ UNCHANGED <<wire, protocolCompatible, connectedCount, protocolCompatibleHeld,
                           internalMessages,
                           delivered, echoTimeout, echoExpired,
                           commandEchoConnectionId, acceptMessages, dropLog>>
       ELSE IF socketBytesAvailable(s) = <<>>
       THEN /\ pc' = [pc EXCEPT ![s] = "proc"]
            /\ UNCHANGED <<wire, protocolCompatible, connectedCount, protocolCompatibleHeld,
                           internalMessages,
                           delivered, echoTimeout, echoExpired,
                           commandEchoConnectionId, acceptMessages, dropLog>>
       ELSE IF \/ ~Readable(s, Head(socketBytesAvailable(s)))
               \/ ~Unpacks(s, Head(socketBytesAvailable(s)))
       THEN \* base.cpp:1224-1229: the decryption fails; or the bytes are
            \* parsed for what they are not, and the worker ends or goes on
            /\ wire' = [wire EXCEPT ![Peer(s)] = Tail(@)]
            /\ \E ends \in (IF encryption[s] /\ ~Head(socketBytesAvailable(s)).encryption
                              THEN {TRUE} ELSE BOOLEAN) :
                  pc' = [pc EXCEPT ![s] = IF ends THEN "close" ELSE "proc"]
            /\ dropLog' = [dropLog EXCEPT ![s] =
                    @ \cup {Head(socketBytesAvailable(s)).msg.id}]
            /\ UNCHANGED <<protocolCompatible, connectedCount, protocolCompatibleHeld,
                           internalMessages,
                           delivered, echoTimeout, echoExpired,
                           commandEchoConnectionId, acceptMessages>>
       ELSE LET m == Head(socketBytesAvailable(s)).msg IN
            /\ wire' = [wire EXCEPT ![Peer(s)] = Tail(@)]
            /\ IF IsFirstCompatible(s, m)
               THEN /\ ProcessProtocolCompatible(s, m)
                    /\ pc' = [pc EXCEPT ![s] = "proc"]
                    /\ UNCHANGED <<delivered, echoTimeout, echoExpired,
                                   commandEchoConnectionId, acceptMessages, dropLog>>
               ELSE IF m.command = "CloseConnection"
               THEN /\ \E leave \in BOOLEAN :
                         /\ ProcessCloseConnection(s, m, leave)
                         /\ pc' = [pc EXCEPT ![s] = IF leave THEN "close" ELSE "proc"]
                    /\ UNCHANGED <<protocolCompatible, connectedCount,
                                   protocolCompatibleHeld, echoTimeout,
                                   echoExpired, commandEchoConnectionId,
                                   acceptMessages, dropLog>>
               ELSE IF m.command = "EchoConnection"
               THEN /\ ProcessEchoConnection(s, m)
                    /\ pc' = [pc EXCEPT ![s] = "proc"]
                    /\ UNCHANGED <<protocolCompatible, connectedCount,
                                   protocolCompatibleHeld, delivered,
                                   acceptMessages, dropLog>>
               ELSE /\ IF Accepts(s)
                       THEN /\ acceptMessages' = [acceptMessages EXCEPT ![s] = Append(@, m)]
                            /\ UNCHANGED dropLog
                       ELSE /\ dropLog' = [dropLog EXCEPT ![s] = @ \cup {m.id}]
                            /\ UNCHANGED acceptMessages
                    /\ \E expired \in BOOLEAN :
                         pc' = [pc EXCEPT ![s] = IF expired THEN "proc" ELSE "recv"]
                    /\ UNCHANGED <<protocolCompatible, connectedCount,
                                   protocolCompatibleHeld, internalMessages,
                                   delivered, echoTimeout, echoExpired,
                                   commandEchoConnectionId>>
    /\ UNCHANGED <<cfgVars, queueVars, messageFormat, encryption, isInsideListener,
                   unknownCommands, threadStop, commandCloseConnectionId, sock,
                   initSocketDescriptor, disconnectedEmitted,
                   stalled, envVars, written, accepted>>

(* --------------------- handling accepted messages --------------------- *)

\* the notice, were the command not put into it
UnknownNoticeBlank(s, m) ==
    MessageCreate(<<s, "Unknown", m.id[3]>>, "Unknown", messageFormat[s], version[s])

\* base.cpp:1386-1389: the notice that answers a command the pool lacks
UnknownNotice(s, m) ==
    [MessageCreate(<<s, "Unknown", m.id[3]>>, "Unknown", messageFormat[s], version[s])
        EXCEPT !.content = m.command]

\* base.cpp:1345-1409: one accepted message is taken: a notice of an unknown
\* command is recorded, an unknown command is answered, anything else is
\* emitted; the part ends when the list is empty or 3*delay ms have passed
ProcStep(s) ==
    /\ pc[s] = "proc"
    /\ IF protocolCompatible[s] = "Yes" /\ acceptMessages[s] # <<>>
       THEN LET m == Head(acceptMessages[s]) IN
            /\ acceptMessages' = [acceptMessages EXCEPT ![s] = Tail(@)]
            /\ IF checkUnknownCommands[s] /\ m.command = "Unknown"
               THEN /\ unknownCommands' = [unknownCommands EXCEPT ![s] =
                            IF m.content # "" THEN @ \cup {m.content} ELSE @]
                    /\ UNCHANGED <<internalMessages, delivered, pc>>
               ELSE IF checkUnknownCommands[s] /\ ~commandExists(s, m.command)
               THEN /\ internalMessages' = [internalMessages EXCEPT ![s] =
                            Append(@, UnknownNotice(s, m))]
                    /\ UNCHANGED <<unknownCommands, delivered, pc>>
               ELSE /\ delivered' = [delivered EXCEPT ![s] = Append(@, m)]
                    /\ \E expired \in BOOLEAN :
                         pc' = [pc EXCEPT ![s] = IF expired THEN "top" ELSE "proc"]
                    /\ UNCHANGED <<unknownCommands, internalMessages>>
       ELSE /\ pc' = [pc EXCEPT ![s] = "top"]
            /\ UNCHANGED <<acceptMessages, unknownCommands, internalMessages, delivered>>
    /\ UNCHANGED <<cfgVars, queueVars, protocolCompatible, messageFormat, encryption,
                   echoTimeout, isInsideListener, threadStop,
                   commandCloseConnectionId, commandEchoConnectionId, echoExpired,
                   netVars, envVars, written, connectedCount, protocolCompatibleHeld,
                   dropLog, accepted>>

\* base.cpp:1421-1425: the worker closes the socket and ends; socketClose
\* (tcp.cpp:216-258) disconnects a socket that is not yet unconnected, and
\* the descriptor is reset
Close(s) ==
    /\ pc[s] = "close"
    /\ pc' = [pc EXCEPT ![s] = "closed"]
    /\ sock' = [sock EXCEPT ![s] = "closed"]
    /\ IF sock[s] = "connected"
       THEN socketDisconnected(s)
       ELSE /\ initSocketDescriptor' = [initSocketDescriptor EXCEPT ![s] = -1]
            /\ UNCHANGED disconnectedEmitted
    /\ UNCHANGED <<cfgVars, queueVars, sockVars, threadStop, internalMessages,
                   acceptMessages, commandCloseConnectionId,
                   commandEchoConnectionId, echoExpired, wire, stalled, envVars,
                   obsVars>>


(* ------------------------- the application side ----------------------- *)

\* what the application sends in the connection specification
AppTemplates ==
    { [command |-> "User", type |-> "Command", priority |-> "High", content |-> "data"],
      [command |-> "CloseConnection", type |-> "Command", priority |-> "Normal",
       content |-> "close_request"],
      [command |-> "CloseConnection", type |-> "Answer", priority |-> "Low",
       content |-> ""] }

\* a message the application built with createMessage and the setters
UserMessage(s, n, tmpl) ==
    [MessageCreate(<<s, "User", n>>, tmpl.command, "QBinary", version[s])
        EXCEPT !.type = tmpl.type, !.priority = tmpl.priority,
               !.content = tmpl.content]

\* the queue a message is added to, were it added at the front
EnqueueFront(s, m) ==
    /\ messagesHigh' = [messagesHigh EXCEPT ![s] =
            IF m.priority = "High" THEN <<m>> \o @ ELSE @]
    /\ messagesLow' = [messagesLow EXCEPT ![s] =
            IF m.priority = "Low" THEN <<m>> \o @ ELSE @]
    /\ messagesNorm' = [messagesNorm EXCEPT ![s] =
            IF m.priority \notin {"High", "Low"} THEN <<m>> \o @ ELSE @]

\* base.cpp:97-107: the queue a message is added to
Enqueue(s, m) ==
    /\ messagesHigh' = [messagesHigh EXCEPT ![s] =
            IF m.priority = "High" THEN Append(@, m) ELSE @]
    /\ messagesLow' = [messagesLow EXCEPT ![s] =
            IF m.priority = "Low" THEN Append(@, m) ELSE @]
    /\ messagesNorm' = [messagesNorm EXCEPT ![s] =
            IF m.priority \notin {"High", "Low"} THEN Append(@, m) ELSE @]

\* what send() returns, were the commands unknown to the peer not looked at
SendAcceptsUnchecked(s, m) == isRunning(s)

\* base.cpp:67-91: what send() returns
SendAccepts(s, m) ==
    /\ isRunning(s)
    /\ ~(checkUnknownCommands[s] /\ m.command \in unknownCommands[s])

\* base.cpp:65-120, SocketCommon::send
Send(s, m) ==
    IF SendAccepts(s, m)
    THEN /\ Enqueue(s, m)
         /\ accepted' = [accepted EXCEPT ![s] = @ \cup {m.id}]
    ELSE UNCHANGED <<messagesHigh, messagesNorm, messagesLow, accepted>>

\* what the application sends in the scheduler specifications
SchedTemplates ==
    { [command |-> "User", type |-> "Command", priority |-> prio, content |-> "data"] :
        prio \in {"High", "Normal", "Low"} }

\* the application calls send() on socket s with its next message
AppCall(s, templates) ==
    /\ \E tmpl \in templates :
          Send(s, UserMessage(s, sendCount + 1, tmpl))
    /\ sendCount' = sendCount + 1
    /\ UNCHANGED <<cfgVars, messagesNormCounter, sockVars, runVars, netVars,
                   echoCount, faults, written, delivered, connectedCount,
                   protocolCompatibleHeld, dropLog>>

\* a send() of the connection specification
AppSend(s) ==
    /\ sendCount < MaxSend
    /\ pc["client"] # "off"
    /\ AppCall(s, AppTemplates)

\* Socket::disconnect / QThreadEx::stop: the stop flag is raised
Stop(s) ==
    /\ isRunning(s)
    /\ ~threadStop[s]
    /\ faults < MaxFaults
    /\ faults' = faults + 1
    /\ threadStop' = [threadStop EXCEPT ![s] = TRUE]
    /\ UNCHANGED <<cfgVars, queueVars, sockVars, pc, internalMessages,
                   acceptMessages, commandCloseConnectionId,
                   commandEchoConnectionId, echoExpired, netVars, sendCount,
                   echoCount, obsVars>>

(* --------------------------- the environment -------------------------- *)

\* the socket of side s fails: socketIsConnectedInternal turns false
SocketError(s) ==
    /\ sock[s] = "connected"
    /\ faults < MaxFaults
    /\ faults' = faults + 1
    /\ sock' = [sock EXCEPT ![s] = "unconnected"]
    /\ socketDisconnected(s)
    /\ UNCHANGED <<cfgVars, queueVars, sockVars, runVars, wire, stalled,
                   sendCount, echoCount, obsVars>>

\* the peer closed its socket and this side's socket learns of it
NoticeClose(s) ==
    /\ sock[s] = "connected"
    /\ sock[Peer(s)] = "closed"
    /\ sock' = [sock EXCEPT ![s] = "unconnected"]
    /\ socketDisconnected(s)
    /\ UNCHANGED <<cfgVars, queueVars, sockVars, runVars, wire, stalled,
                   envVars, obsVars>>

\* the connection hangs: no data passes, the session is not broken
\* (commands/base.h:88-97)
Stall ==
    /\ ~stalled
    /\ \A s \in Sides : sock[s] = "connected"
    /\ faults < MaxFaults
    /\ faults' = faults + 1
    /\ stalled' = TRUE
    /\ UNCHANGED <<cfgVars, queueVars, sockVars, runVars, sock, initSocketDescriptor,
                   disconnectedEmitted, wire,
                   sendCount, echoCount, obsVars>>

\* the echo timer of side s runs out
EchoExpire(s) ==
    /\ pc[s] \in {"top", "send", "recv", "proc"}
    /\ echoTimeout[s] > 0
    /\ ~echoExpired[s]
    /\ isListenerSide(s) \/ echoCount < MaxEcho
    /\ echoExpired' = [echoExpired EXCEPT ![s] = TRUE]
    /\ UNCHANGED <<cfgVars, queueVars, sockVars, pc, threadStop, internalMessages,
                   acceptMessages, commandCloseConnectionId,
                   commandEchoConnectionId, netVars, envVars, obsVars>>

(* -------------------------- the specification ------------------------- *)

Worker(s) ==
    \/ SigSend(s)
    \/ SigWait(s)
    \/ LoopTop(s)
    \/ SendInternal(s)
    \/ SendUser(s)
    \/ SendNone(s)
    \/ SendFlush(s)
    \/ RecvStep(s)
    \/ ProcStep(s)
    \/ Close(s)

Next ==
    \/ Connect
    \/ IncomingConnection
    \/ InsertSocket
    \/ \E s \in Sides : Worker(s)
    \/ \E s \in Sides : AppSend(s)
    \/ \E s \in Sides : Stop(s)
    \/ \E s \in Sides : SocketError(s)
    \/ \E s \in Sides : NoticeClose(s)
    \/ \E s \in Sides : SigTimeout(s)
    \/ \E s \in Sides : EchoExpire(s)
    \/ Stall

Spec == Init /\ [][Next]_vars

(* ---------------------- the scheduler specification ------------------- *)

\* the first message of side s (base.cpp:803-806) as its build creates it
FirstMessage(s, ver) ==
    MessageCreate(<<s, "ProtocolCompatible", 0>>, "ProtocolCompatible", "QBinary", ver)

\* the state of a connection of two builds with the same window and no
\* echo, after the handshake and the exchange of ProtocolCompatible, both
\* workers at the head of the loop and nothing written for the application
Established ==
    /\ version = [s \in Sides |-> ListenerWindow]
    /\ checkProtocolCompatibility = [s \in Sides |-> TRUE]
    /\ checkUnknownCommands = [s \in Sides |-> TRUE]
    /\ onlyEncrypted = FALSE
    /\ protocolMap = [s \in Sides |-> ProtocolMap]
    /\ compressionLevel = [s \in Sides |-> CompressionLevelDefault]
    /\ compressionLevelAsked = [s \in Sides |-> <<>>]
    /\ apiCalls = ApiIdle
    /\ codec = CodecIdle
    /\ listenerSockets = ListenerIdle
    /\ route = RouteIdle
    /\ compressionSize = [s \in Sides |-> CompressionSizeDefault]
    /\ loopback = [s \in Sides |-> FALSE]
    /\ messageFormat = [s \in Sides |-> "QBinary"]
    /\ encryption = [s \in Sides |-> FALSE]
    /\ echoTimeout = [s \in Sides |-> 0]
    /\ messagesNormCounter = [s \in Sides |-> 0]
    /\ unknownCommands = [s \in Sides |-> {}]
    /\ protocolCompatible = [s \in Sides |-> "Yes"]
    /\ isInsideListener = TRUE
    /\ pc = [s \in Sides |-> "top"]
    /\ threadStop = [s \in Sides |-> FALSE]
    /\ internalMessages = EmptyQueues
    /\ acceptMessages = EmptyQueues
    /\ commandCloseConnectionId = [s \in Sides |-> NullId]
    /\ commandEchoConnectionId = [s \in Sides |-> NullId]
    /\ echoExpired = [s \in Sides |-> FALSE]
    /\ sock = [s \in Sides |-> "connected"]
    /\ initSocketDescriptor = SocketFd
    /\ disconnectedEmitted = EmptyQueues
    /\ wire = EmptyQueues
    /\ stalled = FALSE
    /\ echoCount = 0
    /\ faults = 0
    /\ written = [s \in Sides |-> <<FirstMessage(s, ListenerWindow)>>]
    /\ delivered = EmptyQueues
    /\ connectedCount = [s \in Sides |-> 1]
    /\ protocolCompatibleHeld = [s \in Sides |-> <<"Unknown", "Yes">>]
    /\ dropLog = [s \in Sides |-> {}]

\* the socket whose scheduler is observed
Sender == "client"

\* nothing was sent on the established connection
InitSched ==
    /\ Established
    /\ messagesHigh = EmptyQueues
    /\ messagesNorm = EmptyQueues
    /\ messagesLow = EmptyQueues
    /\ sendCount = 0
    /\ accepted = [s \in Sides |-> {}]
    /\ observed = TRUE

\* a send() of the scheduler specification
AppSched(s) ==
    /\ sendCount < MaxSched
    /\ AppCall(s, SchedTemplates)

\* the peer's socketRead takes the frame at the head of the stream
NetDrain(s) ==
    /\ wire[s] # <<>>
    /\ ~stalled
    /\ wire' = [wire EXCEPT ![s] = Tail(@)]
    /\ UNCHANGED <<cfgVars, queueVars, sockVars, runVars, sock, initSocketDescriptor,
                   disconnectedEmitted, stalled,
                   envVars, obsVars>>

\* the steps of the worker of a connected socket with a quiet peer
WorkerSched(s) ==
    \/ LoopTop(s)
    \/ SendUser(s)
    \/ SendNone(s)
    \/ SendFlush(s)
    \/ RecvStep(s)
    \/ ProcStep(s)

NextSched ==
    \/ AppSched(Sender)
    \/ WorkerSched(Sender)
    \/ NetDrain(Sender)

SpecSched == InitSched /\ [][NextSched]_vars

(* ----------------------- the preloaded scheduler ---------------------- *)

\* n messages of one priority as send() queued them, numbered from first
Preloaded(s, prio, first, n) ==
    [k \in 1..n |->
        UserMessage(s, first + k - 1,
                    [command |-> "User", type |-> "Command", priority |-> prio,
                     content |-> "data"])]

\* the application sent its messages while the handshake was running: they
\* are all queued when the worker first looks at the queues
InitPreload ==
    /\ Established
    /\ observed = TRUE
    /\ \E h \in 0..MaxPreHigh, n \in 0..MaxPreNorm, l \in 0..MaxPreLow :
          /\ messagesHigh = [EmptyQueues EXCEPT ![Sender] = Preloaded(Sender, "High", 1, h)]
          /\ messagesNorm = [EmptyQueues EXCEPT ![Sender] =
                                Preloaded(Sender, "Normal", h + 1, n)]
          /\ messagesLow = [EmptyQueues EXCEPT ![Sender] =
                                Preloaded(Sender, "Low", h + n + 1, l)]
          /\ sendCount = h + n + l
          /\ accepted = [s \in Sides |->
                            IF s = Sender THEN {<<s, "User", k>> : k \in 1..(h + n + l)}
                            ELSE {}]

NextPreload ==
    \/ WorkerSched(Sender)
    \/ NetDrain(Sender)

SpecPreload == InitPreload /\ [][NextPreload]_vars

(* ------------------------ the flooded scheduler ----------------------- *)

\* the numbers of the application's messages that side s holds in its
\* queues or that are in flight from it
LiveNumbers(s) ==
    {messagesHigh[s][k].id[3] : k \in 1..Len(messagesHigh[s])}
        \cup {messagesNorm[s][k].id[3] : k \in 1..Len(messagesNorm[s])}
        \cup {messagesLow[s][k].id[3] : k \in 1..Len(messagesLow[s])}
        \cup {wire[s][k].msg.id[3] : k \in 1..Len(wire[s])}

FloodNumbers == 1..(MaxQueue + WireCap + 2)

\* a number no message that still exists carries
FreshNumber(s) ==
    CHOOSE n \in FloodNumbers :
        n \notin LiveNumbers(s) /\ \A k \in 1..(n - 1) : k \in LiveNumbers(s)

\* the application keeps calling send() for as long as it likes; it waits
\* while MaxQueue messages are queued
AppFlood(s) ==
    /\ messagesCount(s) < MaxQueue
    /\ \E tmpl \in SchedTemplates :
          Send(s, UserMessage(s, FreshNumber(s), tmpl))
    /\ UNCHANGED <<cfgVars, messagesNormCounter, sockVars, runVars, netVars,
                   envVars, written, delivered, connectedCount, protocolCompatibleHeld,
                   dropLog>>

\* the established connection, its writes not recorded
InitFlood ==
    /\ Established
    /\ messagesHigh = EmptyQueues
    /\ messagesNorm = EmptyQueues
    /\ messagesLow = EmptyQueues
    /\ sendCount = 0
    /\ accepted = [s \in Sides |-> {}]
    /\ observed = FALSE

NextFlood ==
    \/ AppFlood(Sender)
    \/ WorkerSched(Sender)
    \/ NetDrain(Sender)

\* the worker thread is scheduled while it has a step to take, and the peer
\* keeps reading
SpecFlood ==
    /\ InitFlood
    /\ [][NextFlood]_vars
    /\ WF_vars(WorkerSched(Sender))
    /\ WF_vars(NetDrain(Sender))

(* ------------------- the incompatible connection ---------------------- *)

\* two builds with disjoint windows, the check on at both ends, no echo
InitLive ==
    /\ Init
    /\ version["client"] = <<3, 4>>
    /\ checkProtocolCompatibility = [s \in Sides |-> TRUE]
    /\ echoTimeout = [s \in Sides |-> 0]

\* the steps a worker takes on such a connection
WorkerLive(s) ==
    \/ SigSend(s)
    \/ SigWait(s)
    \/ LoopTop(s)
    \/ SendInternal(s)
    \/ SendNone(s)
    \/ RecvStep(s)
    \/ ProcStep(s)
    \/ Close(s)

NextLive ==
    \/ Connect
    \/ IncomingConnection
    \/ InsertSocket
    \/ \E s \in Sides : WorkerLive(s)
    \/ \E s \in Sides : Stop(s)
    \/ \E s \in Sides : SocketError(s)
    \/ \E s \in Sides : NoticeClose(s)
    \/ \E s \in Sides : SigTimeout(s)
    \/ Stall

\* the client connects, the listener accepts it and adds the socket to its
\* list, each worker thread is scheduled while it has a step to take, and a
\* socket learns that its peer closed; stop(), failures and a hung link may
\* or may not happen
SpecLive ==
    /\ InitLive
    /\ [][NextLive]_vars
    /\ WF_vars(Connect)
    /\ WF_vars(IncomingConnection)
    /\ WF_vars(InsertSocket)
    /\ \A s \in Sides : WF_vars(WorkerLive(s))
    /\ \A s \in Sides : WF_vars(NoticeClose(s))

(* --------------------------- the handshake ---------------------------- *)

\* the format and the encryption the client socket is set to, the build of
\* the listener and whether it allows only encrypted connections
SignConfigs ==
    [messageFormat : {"QBinary", "Json"}, encryption : BOOLEAN,
     listenerMap : {ProtocolMap, ProtocolMapNoJson}, onlyEncrypted : BOOLEAN]

\* two builds of the same protocol window, no echo
InitSign ==
    /\ \E c \in SignConfigs :
          /\ protocolMap = [s \in Sides |->
                               IF isListenerSide(s) THEN c.listenerMap ELSE ProtocolMap]
          /\ onlyEncrypted = c.onlyEncrypted
          /\ compressionLevel = [s \in Sides |-> CompressionLevelDefault]
          /\ compressionLevelAsked = [s \in Sides |-> <<>>]
          /\ apiCalls = ApiIdle
          /\ codec = CodecIdle
          /\ listenerSockets = ListenerIdle
          /\ route = RouteIdle
          /\ compressionSize = [s \in Sides |-> CompressionSizeDefault]
          /\ loopback = [s \in Sides |-> FALSE]
          /\ messageFormat = [s \in Sides |->
                                 IF isListenerSide(s) THEN "QBinary" ELSE c.messageFormat]
          /\ encryption = [s \in Sides |->
                              IF isListenerSide(s) THEN FALSE ELSE c.encryption]
    /\ version = [s \in Sides |-> ListenerWindow]
    /\ checkProtocolCompatibility = [s \in Sides |-> TRUE]
    /\ checkUnknownCommands = [s \in Sides |-> TRUE]
    /\ echoTimeout = [s \in Sides |-> 0]
    /\ InitSocket
    /\ InitNet
    /\ InitObs

WorkerSign(s) ==
    \/ Worker(s)
    \/ KeyWait(s)

NextSign ==
    \/ Connect
    \/ IncomingConnection
    \/ InsertSocket
    \/ \E s \in Sides : WorkerSign(s)
    \/ \E s \in Sides : AppSend(s)
    \/ \E s \in Sides : Stop(s)
    \/ \E s \in Sides : SocketError(s)
    \/ \E s \in Sides : NoticeClose(s)
    \/ \E s \in Sides : SigTimeout(s)
    \/ \E s \in Sides : ForeignKey(s)

SpecSign == InitSign /\ [][NextSign]_vars

(* ------------------------- the unknown commands ----------------------- *)

\* what the application of the client sends: a command that only its own
\* program registers, and one that both programs know
UnknownTemplates ==
    { [command |-> c, type |-> "Command", priority |-> "Normal", content |-> "data"] :
        c \in {"Private", "User"} }

\* two builds of the same protocol window, no echo, the check of unknown
\* commands on or off at either end
InitUnknown ==
    /\ \E check \in [Sides -> BOOLEAN] : checkUnknownCommands = check
    /\ version = [s \in Sides |-> ListenerWindow]
    /\ checkProtocolCompatibility = [s \in Sides |-> TRUE]
    /\ onlyEncrypted = FALSE
    /\ protocolMap = [s \in Sides |-> ProtocolMap]
    /\ compressionLevel = [s \in Sides |-> CompressionLevelDefault]
    /\ compressionLevelAsked = [s \in Sides |-> <<>>]
    /\ apiCalls = ApiIdle
    /\ codec = CodecIdle
    /\ listenerSockets = ListenerIdle
    /\ route = RouteIdle
    /\ compressionSize = [s \in Sides |-> CompressionSizeDefault]
    /\ loopback = [s \in Sides |-> FALSE]
    /\ messageFormat = [s \in Sides |-> "QBinary"]
    /\ encryption = [s \in Sides |-> FALSE]
    /\ echoTimeout = [s \in Sides |-> 0]
    /\ InitSocket
    /\ InitNet
    /\ InitObs

\* a send() of the application of the client
AppUnknown(s) ==
    /\ sendCount < MaxUnknown
    /\ pc[s] # "off"
    /\ AppCall(s, UnknownTemplates)

NextUnknown ==
    \/ Connect
    \/ IncomingConnection
    \/ InsertSocket
    \/ \E s \in Sides : Worker(s)
    \/ AppUnknown(Sender)
    \/ \E s \in Sides : Stop(s)
    \/ \E s \in Sides : SocketError(s)
    \/ \E s \in Sides : NoticeClose(s)

SpecUnknown == InitUnknown /\ [][NextUnknown]_vars

(* ---------------------- the specification of frames ------------------- *)

\* what the application of the client sends: content of either format, left
\* alone, compressed by Message::compress or kept from compression, with no
\* content, with content that brings the message to the compression limit
\* and with one byte more; a message without content is never compressed
\* (message.cpp:135-154)
FrameTemplates ==
    {t \in [contentFormat : {"QBinary", "Json"},
            compression : {"None", "Zip", "Disable"},
            content : {"", "body", "body+"}] :
        t.content = "" => t.compression # "Zip"}

\* a message the application built with createMessage, the content writers
\* and compress() or disableCompress()
FrameMessage(s, n, tmpl) ==
    [MessageCreate(<<s, "User", n>>, "User", tmpl.contentFormat, version[s])
        EXCEPT !.content = tmpl.content, !.compression = tmpl.compression]

\* the settings the frames are written with: either format on both ends, a
\* peer on the same host or not, the compression level left at its default
\* or set to the library's
FrameConfigs ==
    [messageFormat : {"QBinary", "Json"}, loopback : BOOLEAN,
     compressionLevel : {CompressionLevelDefault, -1}]

\* the size the application sets the compression limit to: that of a message
\* with the middle content in the format of the socket
FrameLimit(fmt) ==
    LET m == FrameMessage("client", 1, [contentFormat |-> fmt, compression |-> "None",
                                        content |-> "body"])
    IN  IF fmt = "Json" THEN toJsonSize(m) ELSE size(m)

\* a connection after the handshake and the exchange of ProtocolCompatible,
\* both workers at the head of the loop, nothing sent by the application
InitFrame ==
    /\ version = [s \in Sides |-> ListenerWindow]
    /\ \E c \in FrameConfigs :
          /\ messageFormat = [s \in Sides |-> c.messageFormat]
          /\ loopback = [s \in Sides |-> c.loopback]
          /\ compressionLevel = [s \in Sides |-> c.compressionLevel]
          /\ compressionLevelAsked = [s \in Sides |-> <<>>]
          /\ apiCalls = ApiIdle
          /\ codec = CodecIdle
          /\ listenerSockets = ListenerIdle
          /\ route = RouteIdle
          /\ compressionSize = [s \in Sides |-> FrameLimit(c.messageFormat)]
          /\ written = [s \in Sides |->
                <<MessageCreate(<<s, "ProtocolCompatible", 0>>, "ProtocolCompatible",
                                c.messageFormat, ListenerWindow)>>]
    /\ checkProtocolCompatibility = [s \in Sides |-> TRUE]
    /\ checkUnknownCommands = [s \in Sides |-> TRUE]
    /\ onlyEncrypted = FALSE
    /\ protocolMap = [s \in Sides |-> ProtocolMap]
    /\ encryption = [s \in Sides |-> FALSE]
    /\ echoTimeout = [s \in Sides |-> 0]
    /\ messagesHigh = EmptyQueues
    /\ messagesNorm = EmptyQueues
    /\ messagesLow = EmptyQueues
    /\ messagesNormCounter = [s \in Sides |-> 0]
    /\ unknownCommands = [s \in Sides |-> {}]
    /\ protocolCompatible = [s \in Sides |-> "Yes"]
    /\ isInsideListener = TRUE
    /\ pc = [s \in Sides |-> "top"]
    /\ threadStop = [s \in Sides |-> FALSE]
    /\ internalMessages = EmptyQueues
    /\ acceptMessages = EmptyQueues
    /\ commandCloseConnectionId = [s \in Sides |-> NullId]
    /\ commandEchoConnectionId = [s \in Sides |-> NullId]
    /\ echoExpired = [s \in Sides |-> FALSE]
    /\ sock = [s \in Sides |-> "connected"]
    /\ initSocketDescriptor = SocketFd
    /\ disconnectedEmitted = EmptyQueues
    /\ wire = EmptyQueues
    /\ stalled = FALSE
    /\ sendCount = 0
    /\ echoCount = 0
    /\ faults = 0
    /\ delivered = EmptyQueues
    /\ connectedCount = [s \in Sides |-> 1]
    /\ protocolCompatibleHeld = [s \in Sides |-> <<"Unknown", "Yes">>]
    /\ dropLog = [s \in Sides |-> {}]
    /\ accepted = [s \in Sides |-> {}]
    /\ observed = TRUE

\* a send() of the application of the client
AppFrame(s) ==
    /\ sendCount < MaxFrame
    /\ \E tmpl \in FrameTemplates :
          Send(s, FrameMessage(s, sendCount + 1, tmpl))
    /\ sendCount' = sendCount + 1
    /\ UNCHANGED <<cfgVars, messagesNormCounter, sockVars, runVars, netVars,
                   echoCount, faults, written, delivered, connectedCount,
                   protocolCompatibleHeld, dropLog>>

\* the steps of the workers; the frames of the specification never fill
\* the transport, so nothing is left to flush
WorkerFrame(s) ==
    \/ LoopTop(s)
    \/ SendUser(s)
    \/ SendNone(s)
    \/ RecvStep(s)
    \/ ProcStep(s)

NextFrame ==
    \/ AppFrame(Sender)
    \/ \E s \in Sides : WorkerFrame(s)

SpecFrame == InitFrame /\ [][NextFrame]_vars

(* -------------------- the specification of properties ----------------- *)

\* the level, were the value taken as it is given
setCompressionLevelUnbound(val) == val

\* Properties::setCompressionLevel (base.h:66): qBound(-1, val, 9)
setCompressionLevel(val) == IF val < -1 THEN -1 ELSE IF val > 9 THEN 9 ELSE val

\* the values the application calls setCompressionLevel with
LevelInputs == {-2, -1, 0, 5, 9, 10}

RECURSIVE Bytes(_)
\* a content of n bytes
Bytes(n) ==
    IF n = 0 THEN ""
    ELSE IF n % 2 = 0 THEN LET half == Bytes(n \div 2) IN half \o half
    ELSE "x" \o Bytes(n - 1)

\* the bytes of a qbinary message with no content (message.cpp:249-253)
\* and of the length of a content (message.cpp:270-271)
BareMessageBytes == size(MessageNew) + 4

\* what the application of the client sends: a message that is serialized
\* to exactly the default compression size, and one a byte larger
PropsTemplates ==
    { [command |-> "User", type |-> "Command", priority |-> "Normal",
       content |-> Bytes(CompressionSizeDefault - BareMessageBytes + extra)] :
        extra \in {0, 1} }

\* two builds of the same protocol window on different hosts, the
\* properties of the client socket and of the listener as constructed
InitProps ==
    /\ version = [s \in Sides |-> ListenerWindow]
    /\ checkProtocolCompatibility = [s \in Sides |-> TRUE]
    /\ checkUnknownCommands = [s \in Sides |-> TRUE]
    /\ onlyEncrypted = FALSE
    /\ protocolMap = [s \in Sides |-> ProtocolMap]
    /\ compressionLevel = [s \in Sides |-> CompressionLevelDefault]
    /\ compressionLevelAsked = [s \in Sides |-> <<>>]
    /\ apiCalls = ApiIdle
    /\ codec = CodecIdle
    /\ listenerSockets = ListenerIdle
    /\ route = RouteIdle
    /\ compressionSize = [s \in Sides |-> CompressionSizeDefault]
    /\ loopback = [s \in Sides |-> FALSE]
    /\ messageFormat = [s \in Sides |-> "QBinary"]
    /\ encryption = [s \in Sides |-> FALSE]
    /\ echoTimeout = [s \in Sides |-> 0]
    /\ InitSocket
    /\ InitNet
    /\ InitObs

\* the application calls setCompressionLevel on the client socket, or on
\* the listener, whose accepted sockets take the level over (base.cpp:1596),
\* before the connection is made
SetCompressionLevel(s) ==
    /\ pc["client"] = "off"
    /\ Len(compressionLevelAsked[s]) < MaxSet
    /\ \E val \in LevelInputs :
          /\ compressionLevel' = [compressionLevel EXCEPT ![s] = setCompressionLevel(val)]
          /\ compressionLevelAsked' = [compressionLevelAsked EXCEPT ![s] = Append(@, val)]
    /\ UNCHANGED <<version, checkProtocolCompatibility, checkUnknownCommands,
                   onlyEncrypted, protocolMap, compressionSize, loopback, codec,
                   listenerSockets, route, apiCalls,
                   observed,
                   queueVars, sockVars, runVars, netVars, envVars, obsVars>>

\* a send() of the application on either end
AppProps(s) ==
    /\ sendCount < MaxProps
    /\ pc[s] # "off"
    /\ AppCall(s, PropsTemplates)

\* the steps of the workers; the one frame of the application never fills
\* the transport, so nothing is left to flush
WorkerProps(s) ==
    \/ SigSend(s)
    \/ SigWait(s)
    \/ LoopTop(s)
    \/ SendInternal(s)
    \/ SendUser(s)
    \/ SendNone(s)
    \/ RecvStep(s)
    \/ ProcStep(s)
    \/ Close(s)

NextProps ==
    \/ \E s \in Sides : SetCompressionLevel(s)
    \/ Connect
    \/ IncomingConnection
    \/ InsertSocket
    \/ \E s \in Sides : WorkerProps(s)
    \/ \E s \in Sides : AppProps(s)
    \/ \E s \in Sides : Stop(s)

SpecProps == InitProps /\ [][NextProps]_vars

(* --------------------- the specification of messages ------------------ *)

\* a tag list of n entries
Tags(n) == [i \in 1..n |-> i]

\* the lengths of the tag lists the application calls setTags with
TagCounts == {0, 1, TagLimit, TagLimit + 1}

\* the indexes the application calls setTag with
TagIndexes == {-1, 0, TagLimit - 1, TagLimit}

\* the messages the application has built with create() and the setters:
\* each optional member is left as constructed or set; a message with a
\* content is an Event for two sockets and two points, a message with a
\* proxy id carries the marks of the socket it came from
MessageInputs ==
    { [MessageCreate(<<"client", "User", 1>>, "User", "QBinary", ListenerWindow) EXCEPT
          !.flags2 = f.flags2, !.tags = Tags(f.tags),
          !.maxTimeLife = f.maxTimeLife, !.proxyId = f.proxyId,
          !.accessId = f.accessId, !.content = f.content,
          !.type = IF f.content = "" THEN "Command" ELSE "Event",
          !.compression = IF f.content = "" THEN "None" ELSE "Disable",
          !.destinationSockets = IF f.content = "" THEN {} ELSE {5, 6},
          !.destinationPoints = IF f.content = "" THEN {} ELSE {"host", "peer"},
          !.socketType = IF f.proxyId = 0 THEN "Unknown" ELSE "Tcp",
          !.socketDescriptor = IF f.proxyId = 0 THEN -1 ELSE 5,
          !.socketName = IF f.proxyId = 0 THEN "" ELSE "peer",
          !.sourcePoint = IF f.proxyId = 0 THEN "" ELSE "host",
          !.auxiliary = IF f.proxyId = 0 THEN 0 ELSE 1] :
        f \in [flags2 : {0, 1}, tags : {0, 2, TagLimit},
               maxTimeLife : {NoTimeLife, 0}, proxyId : {0, 7},
               accessId : {"", "key"}, content : {"", "{}"}] }

\* JSON objects a peer that is not this program sends: a tag array of the
\* largest length and of one more, with and without the "flags" number
ForeignDocs ==
    { [members |-> {"id", "command", "tags"} \cup keys,
       id |-> <<"listener", "User", 1>>, command |-> "User",
       flags |-> [FlagsZero EXCEPT !.type = "Command", !.notEmpty = {"tags"}],
       tags |-> Tags(n)] :
        n \in {TagLimit, TagLimit + 1}, keys \in {{}, {"flags"}} }

\* a message of the application is at hand, nothing was made of it yet
InitMessage ==
    /\ version = [s \in Sides |-> ListenerWindow]
    /\ checkProtocolCompatibility = [s \in Sides |-> TRUE]
    /\ checkUnknownCommands = [s \in Sides |-> TRUE]
    /\ onlyEncrypted = FALSE
    /\ protocolMap = [s \in Sides |-> ProtocolMap]
    /\ compressionLevel = [s \in Sides |-> CompressionLevelDefault]
    /\ compressionLevelAsked = [s \in Sides |-> <<>>]
    /\ apiCalls = ApiIdle
    /\ compressionSize = [s \in Sides |-> CompressionSizeDefault]
    /\ loopback = [s \in Sides |-> FALSE]
    /\ messageFormat = [s \in Sides |-> "QBinary"]
    /\ encryption = [s \in Sides |-> FALSE]
    /\ echoTimeout = [s \in Sides |-> 0]
    /\ InitSocket
    /\ InitNet
    /\ InitObs
    /\ \E m \in MessageInputs :
          codec = [CodecIdle EXCEPT !.operation = "create", !.message = m,
                                    !.origin = m]
    /\ listenerSockets = ListenerIdle
    /\ route = RouteIdle

\* one more operation on the message at hand: what it was before, what it
\* is after, and the name of the operation
Operated(name, before, after) ==
    [codec EXCEPT !.operation = name, !.count = @ + 1,
                  !.origin = before, !.message = after]

\* the variables the operations on a message leave alone
socketVars == <<version, checkProtocolCompatibility, checkUnknownCommands,
                onlyEncrypted, protocolMap, compressionLevel, compressionSize,
                loopback, compressionLevelAsked, apiCalls, listenerSockets, route,
                observed,
                queueVars, sockVars, runVars, netVars, envVars, obsVars>>

\* Message::cloneForAnswer on the message at hand
CloneForAnswer ==
    /\ codec.count < MaxOps
    /\ codec' = [Operated("cloneForAnswer", codec.message, codec.message) EXCEPT
                    !.answer = cloneForAnswer(codec.message)]
    /\ UNCHANGED socketVars

\* Message::setTags with a list of the application
SetTags ==
    /\ codec.count < MaxOps
    /\ \E n \in TagCounts :
          codec' = [Operated("setTags", codec.message, setTags(codec.message, Tags(n)))
                        EXCEPT !.val = Tags(n)]
    /\ UNCHANGED socketVars

\* Message::setTag with an index of the application
SetTag ==
    /\ codec.count < MaxOps
    /\ \E index \in TagIndexes :
          codec' = [Operated("setTag", codec.message, setTag(codec.message, 9, index))
                        EXCEPT !.val = <<9>>, !.index = index]
    /\ UNCHANGED socketVars

\* Message::toQBinary (message.cpp:287-297): the stream is written, and the
\* not-empty bits of the message itself are the ones just computed
ToQBinary ==
    /\ codec.count < MaxOps
    /\ LET m == codec.message
           encoded == [m EXCEPT !.notEmpty = initNotEmptyTraits(m)]
       IN  codec' = [Operated("toQBinary", m, encoded) EXCEPT
                        !.stream = toDataStream(m)]
    /\ UNCHANGED socketVars

\* Message::fromQBinary (message.cpp:299-304) of the bytes just written:
\* the message at hand is now the decoded one
FromQBinary ==
    /\ codec.count < MaxOps
    /\ codec.operation = "toQBinary"
    /\ codec' = Operated("fromQBinary", codec.message, fromDataStream(codec.stream))
    /\ UNCHANGED socketVars

\* Message::toJson of the message at hand
ToJson ==
    /\ codec.count < MaxOps
    /\ LET m == codec.message
           encoded == [m EXCEPT !.notEmpty = initNotEmptyTraits(m)]
       IN  codec' = [Operated("toJson", m, encoded) EXCEPT !.doc = toJson(m)]
    /\ UNCHANGED socketVars

\* Message::fromJson of the text just written
FromJson ==
    /\ codec.count < MaxOps
    /\ codec.operation = "toJson"
    /\ codec' = Operated("fromJson", codec.message, fromJson(codec.doc))
    /\ UNCHANGED socketVars

\* Message::fromJson of a text received from a foreign peer
FromJsonForeign ==
    /\ codec.count < MaxOps
    /\ \E doc \in ForeignDocs :
          codec' = [Operated("fromJson", codec.message, fromJson(doc)) EXCEPT
                        !.doc = doc]
    /\ UNCHANGED socketVars

NextMessage ==
    \/ CloneForAnswer
    \/ SetTags
    \/ SetTag
    \/ ToQBinary
    \/ FromQBinary
    \/ ToJson
    \/ FromJson
    \/ FromJsonForeign

SpecMessage == InitMessage /\ [][NextMessage]_vars

(* --------------------- the specification of the listener -------------- *)

\* QThread::isRunning of the socket accepted with descriptor fd: from
\* start() (base.cpp:1610) to the end of run()
SocketRunning(fd) ==
    listenerSockets.phase[fd] \in {"starting", "open", "closing"}

\* Socket::socketDescriptor (base.cpp:208-217, tcp.cpp:146-149): the
\* descriptor of the system socket between socketInit and socketClose, -1
\* before and after, and while the worker holds the lock of the socket
\* for one of the two
socketDescriptor(fd) == IF listenerSockets.phase[fd] = "open" THEN fd ELSE -1

\* Listener::sockets (base.cpp:1459-1472): the sockets of _sockets whose
\* worker is running
ListenerSocketList == {fd \in ListenerFds : SocketRunning(fd)}

\* the branch of a Command or Answer with a socket descriptor, were the
\* type of the socket not compared
BySocketDescriptorAnyType(sockets, message) ==
    {fd \in sockets : socketDescriptor(fd) = message.socketDescriptor}

\* transport::send (base.cpp:1668-1676): the sockets of the list with the
\* descriptor and the type the message carries
BySocketDescriptor(sockets, message) ==
    {fd \in sockets : /\ socketDescriptor(fd) = message.socketDescriptor
                      /\ ListenerSocketType = message.socketType}

\* the sockets an Event goes to, were the exclusion set not looked at
EventSocketsAll(sockets, excludeSockets) == sockets

\* transport::send (base.cpp:1637-1642): the sockets an Event goes to
EventSockets(sockets, excludeSockets) ==
    {fd \in sockets : socketDescriptor(fd) \notin excludeSockets}

\* transport::send (base.cpp:1621-1689): the sockets whose send() is called
\* with the message, and whether an error is logged instead; the loop over
\* the socket descriptor stops at the first socket found
transportSend(sockets, message, excludeSockets) ==
    IF message.type = "Unknown"
    THEN [offered |-> {}, error |-> TRUE]
    ELSE IF message.type = "Event"
    THEN [offered |-> EventSockets(sockets, excludeSockets), error |-> FALSE]
    ELSE IF message.destinationSockets # {}
    THEN LET found == {fd \in sockets :
                          socketDescriptor(fd) \in message.destinationSockets}
         IN  [offered |-> found, error |-> found = {}]
    ELSE IF message.socketDescriptor # -1
    THEN LET found == BySocketDescriptor(sockets, message)
             first == {fd \in found : \A other \in found : fd <= other}
         IN  [offered |-> first, error |-> found = {}]
    ELSE [offered |-> {}, error |-> TRUE]

\* a message of the application of the listener
ListenerMessage(type, dest, from) ==
    [MessageCreate(<<"listener", "User", 1>>, "User", "QBinary", ListenerWindow) EXCEPT
        !.type = type, !.destinationSockets = dest,
        !.socketDescriptor = from[1], !.socketType = from[2]]

\* what the application calls Listener::send with, a message and an
\* exclusion set: an Event, with and without destination sockets of its
\* own, and every exclusion set (-1 is what the overload with one
\* descriptor is given for no socket); a Command with no destination, with
\* destination sockets that are or are not those of the listener, and
\* with the descriptor and type of the socket it came from, of this
\* listener or of another one; an Answer to a command of socket 5; a
\* message whose type was never set
SendInputs ==
    { <<ListenerMessage("Event", dest, <<-1, "Unknown">>), excludeSockets>> :
        dest \in {{}, {9}}, excludeSockets \in {{}, {-1}, {5}, {5, 7}} }
    \cup
    { <<ListenerMessage("Command", dest, from), excludeSockets>> :
        dest \in {{}, {5, 6}, {7, 9}, {9}},
        from \in {<<-1, "Unknown">>, <<5, "Tcp">>, <<5, "Local">>, <<9, "Tcp">>},
        excludeSockets \in {{}, {5}} }
    \cup
    { <<ListenerMessage("Answer", dest, <<5, "Tcp">>), {}>> : dest \in {{}, {5, 6}} }
    \cup
    { <<[MessageNew EXCEPT !.command = "User", !.socketDescriptor = 5,
                           !.socketType = "Tcp"], {}>> }

\* a listener that has accepted nothing yet
InitListener ==
    /\ version = [s \in Sides |-> ListenerWindow]
    /\ checkProtocolCompatibility = [s \in Sides |-> TRUE]
    /\ checkUnknownCommands = [s \in Sides |-> TRUE]
    /\ onlyEncrypted = FALSE
    /\ protocolMap = [s \in Sides |-> ProtocolMap]
    /\ compressionLevel = [s \in Sides |-> CompressionLevelDefault]
    /\ compressionLevelAsked = [s \in Sides |-> <<>>]
    /\ apiCalls = ApiIdle
    /\ compressionSize = [s \in Sides |-> CompressionSizeDefault]
    /\ loopback = [s \in Sides |-> FALSE]
    /\ messageFormat = [s \in Sides |-> "QBinary"]
    /\ encryption = [s \in Sides |-> FALSE]
    /\ echoTimeout = [s \in Sides |-> 0]
    /\ InitSocket
    /\ InitNet
    /\ InitObs
    /\ codec = CodecIdle
    /\ listenerSockets = ListenerIdle
    /\ route = RouteIdle

\* the variables a listener with several sockets leaves alone
singleVars == <<version, checkProtocolCompatibility, checkUnknownCommands,
                onlyEncrypted, protocolMap, compressionLevel, compressionSize,
                loopback, compressionLevelAsked, apiCalls, codec, route, observed,
                queueVars, sockVars, runVars, netVars, envVars, obsVars>>

\* Listener::incomingConnectionInternal (base.cpp:1591-1616): the worker
\* of the new socket is started and the socket is added to _sockets
incomingConnectionInternal(fd) ==
    /\ listenerSockets.phase[fd] = "absent"
    /\ listenerSockets' = [listenerSockets EXCEPT !.phase[fd] = "starting"]
    /\ UNCHANGED singleVars

\* base.cpp:313-326: the worker has made the system socket of the
\* descriptor it was started with
SocketOpens(fd) ==
    /\ listenerSockets.phase[fd] = "starting"
    /\ listenerSockets' = [listenerSockets EXCEPT !.phase[fd] = "open"]
    /\ UNCHANGED singleVars

\* base.cpp:1421-1425: the worker leaves its loop and closes the socket
SocketCloses(fd) ==
    /\ listenerSockets.phase[fd] = "open"
    /\ listenerSockets' = [listenerSockets EXCEPT !.phase[fd] = "closing"]
    /\ UNCHANGED singleVars

\* the end of run(): the thread is not running any more
SocketFinishes(fd) ==
    /\ listenerSockets.phase[fd] = "closing"
    /\ listenerSockets' = [listenerSockets EXCEPT !.phase[fd] = "finished"]
    /\ UNCHANGED singleVars

\* Listener::removeClosedSockets (base.cpp:1578-1589): the sockets that
\* are not running leave _sockets
RemoveClosedSockets ==
    /\ \E fd \in ListenerFds : listenerSockets.phase[fd] = "finished"
    /\ listenerSockets' = [listenerSockets EXCEPT !.phase =
            [fd \in ListenerFds |-> IF @[fd] = "finished" THEN "absent" ELSE @[fd]]]
    /\ UNCHANGED singleVars

\* Listener::send (base.cpp:1501-1506): the list of the running sockets is
\* taken and transport::send is called with it
ListenerSend ==
    /\ listenerSockets.count < MaxCalls
    /\ \E input \in SendInputs :
          LET message == input[1]
              excludeSockets == input[2]
              sockets == ListenerSocketList
              done == transportSend(sockets, message, excludeSockets)
          IN  listenerSockets' = [listenerSockets EXCEPT
                    !.count = @ + 1,
                    !.call = [message |-> message, excludeSockets |-> excludeSockets,
                              list |-> sockets, offered |-> done.offered,
                              error |-> done.error]]
    /\ UNCHANGED singleVars

NextListener ==
    \/ \E fd \in ListenerFds : incomingConnectionInternal(fd)
    \/ \E fd \in ListenerFds : SocketOpens(fd)
    \/ \E fd \in ListenerFds : SocketCloses(fd)
    \/ \E fd \in ListenerFds : SocketFinishes(fd)
    \/ RemoveClosedSockets
    \/ ListenerSend

SpecListener == InitListener /\ [][NextListener]_vars

(* ------------------- stopping the worker at any time ------------------ *)

\* the handshake, were its wait for the signature not timed
SigTimerExpiredNever(s) == FALSE /\ UNCHANGED vars

\* base.cpp:615-635, 498-503: timer.hasExpired(timeout) turns true while
\* the signature or the key has not come, whatever the link does
SigTimerExpired(s) ==
    /\ pc[s] \in {"sigWait", "keyWait"}
    /\ socketBytesAvailable(s) = <<>>
    /\ socketIsConnectedInternal(s)
    /\ AfterHandshake(s, messageFormat[s], FALSE)
    /\ UNCHANGED <<cfgVars, queueVars, sockVars, threadStop, acceptMessages,
                   commandCloseConnectionId, netVars, envVars, obsVars>>

\* Socket::disconnect (base.cpp:224-227) calls QThreadEx::stop, which raises
\* the flag threadStop() reads; the application may call it whenever the
\* thread runs
ThreadStop(s) ==
    /\ isRunning(s)
    /\ ~threadStop[s]
    /\ threadStop' = [threadStop EXCEPT ![s] = TRUE]
    /\ UNCHANGED <<cfgVars, queueVars, sockVars, pc, internalMessages,
                   acceptMessages, commandCloseConnectionId,
                   commandEchoConnectionId, echoExpired, netVars, envVars, obsVars>>

\* the builds and settings of the connections that are stopped: the same
\* and the disjoint window with the check on, and the same window with the
\* echo
StopConfigs ==
    {c \in Configs : /\ c.window \in {<<1, 2>>, <<3, 4>>}
                     /\ c.check = [s \in Sides |-> TRUE]
                     /\ c.echo = 0 \/ (c.echo > 0 /\ c.window = <<1, 2>>)}

InitStop ==
    /\ Init
    /\ \E c \in StopConfigs :
          /\ version["client"] = c.window
          /\ checkProtocolCompatibility = c.check
          /\ echoTimeout["client"] = c.echo

NextStop ==
    \/ Connect
    \/ IncomingConnection
    \/ InsertSocket
    \/ \E s \in Sides : Worker(s)
    \/ AppSend("client")
    \/ \E s \in Sides : ThreadStop(s)
    \/ \E s \in Sides : SigTimerExpired(s)
    \/ \E s \in Sides : NoticeClose(s)
    \/ \E s \in Sides : EchoExpire(s)
    \/ Stall

\* each worker thread is scheduled while it has a step to take; the listener,
\* having started the thread of an accepted socket, goes on to add the socket
\* to its list (base.cpp:1609-1615); the timer of the handshake runs out;
\* whether and when the application connects, sends and stops, the link
\* hangs, the echo timer runs out and the peer's close is noticed is left open
SpecStop ==
    /\ InitStop
    /\ [][NextStop]_vars
    /\ WF_vars(InsertSocket)
    /\ \A s \in Sides : WF_vars(Worker(s))
    /\ \A s \in Sides : WF_vars(SigTimerExpired(s))

(* ------------------- the setters of the socket ------------------------ *)

\* milliseconds in a second (base.cpp:271, 279)
MsPerSecond == 1000

\* the division of two int in C++, which truncates toward zero
IntDiv(a, b) == IF a >= 0 THEN a \div b ELSE -((-a) \div b)

\* whether the worker holds _socketLock for the 10 ms the application's
\* call tries it: the worker holds it from socketCreate until socketInit
\* has returned (base.cpp:313-327), the socket being connected at the end
\* of it, so a call made when the worker has just connected may meet it
LockHeld(s) == IF pc[s] = "sigSend" THEN BOOLEAN ELSE {FALSE}

\* Socket::socketIsConnected (base.cpp:181-190): false when the lock is not
\* had within 10 ms
socketIsConnected(s, locked) == IF locked THEN FALSE ELSE socketIsConnectedInternal(s)

\* Socket::setMessageFormat (base.cpp:253-259)
setMessageFormat(s, old, val, connected) ==
    IF connected \/ isListenerSide(s) THEN old ELSE val

\* Socket::setEncryption (base.cpp:261-267)
setEncryption(s, old, val, connected) ==
    IF connected \/ isListenerSide(s) THEN old ELSE val

\* the setter, were it not to look at the socket
setEchoTimeoutUnguarded(s, old, val, connected) == val * MsPerSecond

\* Socket::setEchoTimeout (base.cpp:274-280): seconds are stored as
\* milliseconds
setEchoTimeout(s, old, val, connected) ==
    IF connected \/ isListenerSide(s) THEN old ELSE val * MsPerSecond

\* Socket::echoTimeout (base.cpp:269-272): milliseconds are read as seconds
echoTimeoutSeconds(ms) == IntDiv(ms, MsPerSecond)

\* the seconds setEchoTimeout is called with
EchoSeconds == {-1, 0, 1}

\* the variables of the configuration but the record of the calls
uncalledVars == <<version, checkProtocolCompatibility, checkUnknownCommands,
                  onlyEncrypted, protocolMap, compressionLevel, compressionSize,
                  loopback, compressionLevelAsked, codec, listenerSockets, route,
                  observed>>

\* one more call: what was called on which socket with which value, whether
\* the socket was connected and the lock held, and the three properties
\* before the call
ApiCalled(name, s, val, locked) ==
    [count |-> apiCalls.count + 1, removed |-> apiCalls.removed,
     last |-> [name |-> name, side |-> s, val |-> val, locked |-> locked,
               connected |-> socketIsConnectedInternal(s),
               before |-> <<messageFormat[s], encryption[s], echoTimeout[s]>>]]

\* the application calls setMessageFormat at any time
SetMessageFormat(s) ==
    /\ apiCalls.count < MaxApiCalls
    /\ \E val \in {"QBinary", "Json"}, locked \in LockHeld(s) :
          /\ messageFormat' = [messageFormat EXCEPT ![s] =
                setMessageFormat(s, @, val, socketIsConnected(s, locked))]
          /\ apiCalls' = ApiCalled("setMessageFormat", s, val, locked)
    /\ UNCHANGED <<uncalledVars, queueVars, protocolCompatible, encryption,
                   echoTimeout, isInsideListener, unknownCommands, runVars,
                   netVars, envVars, obsVars>>

\* the application calls setEncryption at any time
SetEncryption(s) ==
    /\ apiCalls.count < MaxApiCalls
    /\ \E val \in BOOLEAN, locked \in LockHeld(s) :
          /\ encryption' = [encryption EXCEPT ![s] =
                setEncryption(s, @, val, socketIsConnected(s, locked))]
          /\ apiCalls' = ApiCalled("setEncryption", s, val, locked)
    /\ UNCHANGED <<uncalledVars, queueVars, protocolCompatible, messageFormat,
                   echoTimeout, isInsideListener, unknownCommands, runVars,
                   netVars, envVars, obsVars>>

\* the application calls setEchoTimeout at any time
SetEchoTimeout(s) ==
    /\ apiCalls.count < MaxApiCalls
    /\ \E val \in EchoSeconds, locked \in LockHeld(s) :
          /\ echoTimeout' = [echoTimeout EXCEPT ![s] =
                setEchoTimeout(s, @, val, socketIsConnected(s, locked))]
          /\ apiCalls' = ApiCalled("setEchoTimeout", s, val, locked)
    /\ UNCHANGED <<uncalledVars, queueVars, protocolCompatible, messageFormat,
                   encryption, isInsideListener, unknownCommands, runVars,
                   netVars, envVars, obsVars>>

\* the steps of the workers; the application sends nothing
WorkerSetters(s) ==
    \/ SigSend(s)
    \/ SigWait(s)
    \/ KeyWait(s)
    \/ LoopTop(s)
    \/ SendInternal(s)
    \/ SendNone(s)
    \/ RecvStep(s)
    \/ ProcStep(s)
    \/ Close(s)

NextSetters ==
    \/ \E s \in Sides : SetMessageFormat(s)
    \/ \E s \in Sides : SetEncryption(s)
    \/ \E s \in Sides : SetEchoTimeout(s)
    \/ Connect
    \/ IncomingConnection
    \/ InsertSocket
    \/ \E s \in Sides : WorkerSetters(s)
    \/ \E s \in Sides : ThreadStop(s)
    \/ \E s \in Sides : NoticeClose(s)

\* two sockets as constructed; the setters are called before, while and
\* after the connection runs
SpecSetters == InitProps /\ [][NextSetters]_vars

(* ------------------- removing queued messages ------------------------- *)

\* the commands of the messages that are queued and removed
RemoveCommands == {"User", "Private"}

\* what the application sends in the specification of remove()
RemoveTemplates ==
    { [command |-> c, type |-> "Command", priority |-> prio, content |-> "data"] :
        c \in RemoveCommands, prio \in {"High", "Normal", "Low"} }

\* the removal, were only the first message of the command taken out
removeCondFirst(list, command) ==
    IF \E k \in 1..Len(list) : list[k].command = command
    THEN LET k == CHOOSE k \in 1..Len(list) :
                     /\ list[k].command = command
                     /\ \A j \in 1..(k - 1) : list[j].command # command
         IN  SubSeq(list, 1, k - 1) \o SubSeq(list, k + 1, Len(list))
    ELSE list

\* base.cpp:128-139: removeCond(funcCond) takes out of a list every message
\* whose command is the one given and keeps the others in their order
removeCond(list, command) == SelectSeq(list, LAMBDA m : m.command # command)

\* the ids of the messages of a list
ListIds(list) == {list[k].id : k \in 1..Len(list)}

\* SocketCommon::remove (base.cpp:124-140), called by the application at
\* any time
Remove(s) ==
    /\ apiCalls.count < MaxApiCalls
    /\ \E command \in RemoveCommands :
          LET high == removeCond(messagesHigh[s], command)
              norm == removeCond(messagesNorm[s], command)
              low  == removeCond(messagesLow[s], command)
          IN  /\ messagesHigh' = [messagesHigh EXCEPT ![s] = high]
              /\ messagesNorm' = [messagesNorm EXCEPT ![s] = norm]
              /\ messagesLow' = [messagesLow EXCEPT ![s] = low]
              /\ apiCalls' =
                    [count |-> apiCalls.count + 1,
                     removed |-> apiCalls.removed \cup
                        ((ListIds(messagesHigh[s]) \cup ListIds(messagesNorm[s])
                            \cup ListIds(messagesLow[s]))
                         \ (ListIds(high) \cup ListIds(norm) \cup ListIds(low))),
                     last |-> [name |-> "remove", side |-> s, val |-> command,
                               locked |-> FALSE,
                               connected |-> socketIsConnectedInternal(s),
                               before |-> <<messagesHigh[s], messagesNorm[s],
                                            messagesLow[s]>>]]
    /\ UNCHANGED <<uncalledVars, messagesNormCounter, sockVars, runVars, netVars,
                   envVars, obsVars>>

\* a send() of the specification of remove()
AppRemove(s) ==
    /\ sendCount < MaxRemoveSend
    /\ AppCall(s, RemoveTemplates)

NextRemove ==
    \/ AppRemove(Sender)
    \/ Remove(Sender)
    \/ WorkerSched(Sender)
    \/ NetDrain(Sender)

\* the established connection, on which the application sends messages of
\* two commands and removes those of one
SpecRemove == InitSched /\ [][NextRemove]_vars

(* ------------------- the specification of delivery -------------------- *)

\* what the application of the client sends: a command of its own and,
\* as send() does not refuse it, a ProtocolCompatible command
DeliverTemplates ==
    { [command |-> c, type |-> "Command", priority |-> prio, content |-> "data"] :
        c \in {"User", "ProtocolCompatible"}, prio \in {"High", "Normal"} }

\* no echo; the same window with the check on at both ends, and the
\* disjoint window with the check on at both ends or off at the client
DeliverConfigs ==
    {c \in Configs :
        /\ c.echo = 0
        /\ c.window \in {ListenerWindow, <<3, 4>>}
        /\ c.check["listener"]
        /\ c.window = ListenerWindow => c.check["client"]}

InitDeliver ==
    /\ Init
    /\ \E c \in DeliverConfigs :
          /\ version["client"] = c.window
          /\ checkProtocolCompatibility = c.check
          /\ echoTimeout["client"] = c.echo

\* a send() of the application of the client
AppDeliver(s) ==
    /\ sendCount < MaxDeliver
    /\ pc[s] # "off"
    /\ AppCall(s, DeliverTemplates)

\* the program at side s is not this library and writes a message for the
\* application ahead of its ProtocolCompatible command: the peer reads it
\* while its status is Unknown
EarlyMessage(s) ==
    /\ pc[s] \in {"top", "send"}
    /\ socketIsConnectedInternal(s)
    /\ internalMessages[s] # <<>>
    /\ Head(internalMessages[s]).command = "ProtocolCompatible"
    /\ faults < MaxFaults
    /\ faults' = faults + 1
    /\ LET m == UserMessage(s, 0, [command |-> "User", type |-> "Command",
                                    priority |-> "Normal", content |-> "data"])
       IN  \E buff \in WriteBuffers(s, m) :
              wire' = [wire EXCEPT ![s] = Append(@, MsgFrame(s, m, buff))]
    /\ UNCHANGED <<cfgVars, queueVars, sockVars, runVars, sock, initSocketDescriptor,
                   disconnectedEmitted, stalled, sendCount, echoCount, obsVars>>

\* the worker without the wait for the bytes of an echo to be written
WorkerDeliver(s) ==
    \/ SigSend(s)
    \/ SigWait(s)
    \/ LoopTop(s)
    \/ SendInternal(s)
    \/ SendUser(s)
    \/ SendNone(s)
    \/ RecvStep(s)
    \/ ProcStep(s)
    \/ Close(s)

NextDeliver ==
    \/ Connect
    \/ IncomingConnection
    \/ InsertSocket
    \/ \E s \in Sides : WorkerDeliver(s)
    \/ AppDeliver(Sender)
    \/ EarlyMessage(Sender)
    \/ \E s \in Sides : NoticeClose(s)

\* the connection from its construction, the application of the client
\* sending while the statuses are set
SpecDeliver == InitDeliver /\ [][NextDeliver]_vars

(* --------------------- the specification of the forwarder ------------- *)

\* RouteCommands::commands: the commands that are relayed
RoutedCommands == {"Routed"}

\* the descriptor of the socket of each point
PointDescriptor == [i \in Points |-> 4 + i]

\* a < b for two quint64, NoTimeLife being quint64(-1), the largest
U64Less(a, b) ==
    IF a = NoTimeLife THEN FALSE ELSE IF b = NoTimeLife THEN TRUE ELSE a < b

\* the sweep, were nothing ever swept
removeExpiredTimeNever(records, curTime) == records

\* removeExpiredTime (routing.cpp:47-52): the records whose time is before
\* curTime leave
removeExpiredTime(records, curTime) ==
    SelectSeq(records, LAMBDA rec : ~U64Less(rec[2], curTime))

\* the first record of the id (routing.cpp:91-97), 0 when there is none
FirstRecord(records, id) ==
    IF \E i \in 1..Len(records) : records[i][1] = id
    THEN CHOOSE i \in 1..Len(records) :
            /\ records[i][1] = id
            /\ \A j \in 1..(i - 1) : records[j][1] # id
    ELSE 0

\* the records without the one at index i (QVector::remove)
RemoveAt(records, i) ==
    [j \in 1..(Len(records) - 1) |-> IF j < i THEN records[j] ELSE records[j + 1]]

\* the handling of an Answer that is found, were its record left in place
TakeRecordKeep(records, i) == records

\* routing.cpp:95: the record found is removed
TakeRecord(records, i) == RemoveAt(records, i)

\* the lambda func of forwarding (routing.cpp:56-129) for the message as
\* coming from point a and going to point b: the result -1, 0 or 1, the
\* points after it, and what was passed to send() of which point's socket
func(a, b, point, message, curTime) ==
    IF ~point[a].socket \/ PointDescriptor[a] # message.socketDescriptor
    THEN [res |-> -1, point |-> point, sent |-> {}]
    ELSE IF ~point[b].socket
    THEN [res |-> 0, point |-> point, sent |-> {[to |-> a, what |-> "Error"]}]
    ELSE IF message.type = "Command"
    THEN LET time == IF message.maxTimeLife # 0 THEN message.maxTimeLife
                     ELSE curTime + RecordLife
         IN  [res |-> 1,
              point |-> [point EXCEPT ![a].transferredCommands =
                            Append(@, <<message.id, time>>)],
              sent |-> {[to |-> b, what |-> "message"]}]
    ELSE IF message.type = "Answer"
    THEN LET i == FirstRecord(point[b].transferredCommands, message.id) IN
         IF i # 0
         THEN [res |-> 1,
               point |-> [point EXCEPT ![b].transferredCommands = TakeRecord(@, i)],
               sent |-> {[to |-> b, what |-> "message"]}]
         ELSE [res |-> 0, point |-> point, sent |-> {[to |-> a, what |-> "Error"]}]
    ELSE [res |-> 1, point |-> point, sent |-> {[to |-> b, what |-> "message"]}]

\* RouteCommands::forwarding (routing.cpp:41-141): the result, the points
\* after the call and what was sent
forwarding(point, message, curTime) ==
    IF message.command \notin RoutedCommands
    THEN [res |-> FALSE, point |-> point, sent |-> {}]
    ELSE LET swept == [i \in Points |->
                          [point[i] EXCEPT !.transferredCommands =
                              removeExpiredTime(@, curTime)]]
             first == func(1, 2, swept, message, curTime)
             second == func(2, 1, swept, message, curTime)
         IN  IF first.res # -1
             THEN [res |-> first.res = 1, point |-> first.point, sent |-> first.sent]
             ELSE IF second.res # -1
             THEN [res |-> second.res = 1, point |-> second.point, sent |-> second.sent]
             ELSE [res |-> FALSE, point |-> swept, sent |-> {}]

\* a message received from the socket of descriptor from
RouteMessage(type, n, command, life, from) ==
    [MessageCreate(<<"client", "User", n>>, command, "QBinary", ListenerWindow) EXCEPT
        !.type = type, !.maxTimeLife = life, !.socketDescriptor = from,
        !.socketType = "Tcp"]

\* the messages the application passes to forwarding at time curTime: a
\* relayed command of either point or of a third socket, with no time of
\* life, with a time of life of zero and with one that ends in two
\* seconds; its answer and an event; a command and an answer that are not
\* among the relayed ones
RouteInputs(curTime) ==
    { RouteMessage("Command", n, "Routed", life, from) :
        n \in {1, 2}, life \in {NoTimeLife, 0, curTime + 2}, from \in {5, 6, 9} }
    \cup { RouteMessage("Answer", n, "Routed", NoTimeLife, from) :
             n \in {1, 2}, from \in {5, 6, 9} }
    \cup { RouteMessage("Event", 1, "Routed", NoTimeLife, from) : from \in {5, 6} }
    \cup { RouteMessage(type, 1, "User", NoTimeLife, 5) : type \in {"Command", "Answer"} }

\* a forwarder between two sockets, the second of which may be missing
InitRoute ==
    /\ version = [s \in Sides |-> ListenerWindow]
    /\ checkProtocolCompatibility = [s \in Sides |-> TRUE]
    /\ checkUnknownCommands = [s \in Sides |-> TRUE]
    /\ onlyEncrypted = FALSE
    /\ protocolMap = [s \in Sides |-> ProtocolMap]
    /\ compressionLevel = [s \in Sides |-> CompressionLevelDefault]
    /\ compressionLevelAsked = [s \in Sides |-> <<>>]
    /\ apiCalls = ApiIdle
    /\ compressionSize = [s \in Sides |-> CompressionSizeDefault]
    /\ loopback = [s \in Sides |-> FALSE]
    /\ messageFormat = [s \in Sides |-> "QBinary"]
    /\ encryption = [s \in Sides |-> FALSE]
    /\ echoTimeout = [s \in Sides |-> 0]
    /\ InitSocket
    /\ InitNet
    /\ InitObs
    /\ codec = CodecIdle
    /\ listenerSockets = ListenerIdle
    /\ \E second \in BOOLEAN :
          route = [RouteIdle EXCEPT !.point[1].socket = TRUE,
                                    !.point[2].socket = second]

\* the variables the forwarder leaves alone
unroutedVars == <<version, checkProtocolCompatibility, checkUnknownCommands,
                  onlyEncrypted, protocolMap, compressionLevel, compressionSize,
                  loopback, compressionLevelAsked, apiCalls, codec, listenerSockets,
                  observed,
                  queueVars, sockVars, runVars, netVars, envVars, obsVars>>

\* the application calls forwarding with a message it received; std::time
\* gives the second of the call (routing.cpp:46)
Forwarding ==
    /\ route.count < MaxForward
    /\ \E message \in RouteInputs(route.curTime) :
          LET done == forwarding(route.point, message, route.curTime) IN
          route' = [route EXCEPT
              !.point = done.point,
              !.count = @ + 1,
              !.relayed = IF [to |-> 1, what |-> "message"] \in done.sent
                             \/ [to |-> 2, what |-> "message"] \in done.sent
                          THEN Append(@, message) ELSE @,
              !.call = [message |-> message, res |-> done.res, sent |-> done.sent,
                        before |-> [i \in Points |-> route.point[i].transferredCommands],
                        curTime |-> route.curTime]]
    /\ UNCHANGED unroutedVars

\* time passes: a second, or the seconds a record without a time of life
\* is kept
Tick ==
    /\ route.ticks < MaxTicks
    /\ \E seconds \in {1, RecordLife} :
          route' = [route EXCEPT !.curTime = @ + seconds, !.ticks = @ + 1]
    /\ UNCHANGED unroutedVars

NextRoute ==
    \/ Forwarding
    \/ Tick

SpecRoute == InitRoute /\ [][NextRoute]_vars

(* ------------------------------ claim C1 ------------------------------ *)

\* m is a message the application of side s passed to send()
IsAppMessage(s, m) == m.id[1] = s /\ m.id[2] = "User"

\* the messages of its application among those side s wrote, in the order
\* of their socketWrite
AppWritten(s) == SelectSeq(written[s], LAMBDA m : IsAppMessage(s, m))

\* C1: of two messages that send() accepted on the same socket with the
\* same priority, the one enqueued first (the one with the smaller send
\* number) is written first, whatever the interleaving of the send() calls
\* with the worker's steps
C1_PerPriorityFifo ==
    \A s \in Sides :
        LET w == AppWritten(s) IN
        \A i, j \in 1..Len(w) :
            (i < j /\ w[i].priority = w[j].priority) => w[i].id[3] < w[j].id[3]

\* two messages of the same priority are written, and between them a
\* message of another priority
C1_Witness ==
    LET w == AppWritten(Sender) IN
    \E i, j \in 1..Len(w) :
        /\ i + 1 < j
        /\ w[i].priority = w[j].priority
        /\ w[i + 1].priority # w[i].priority

(* ------------------------------ claim C2 ------------------------------ *)

\* a step of the worker of side s that takes a message off a user queue
Dequeues(s) ==
    Len(messagesHigh'[s]) + Len(messagesNorm'[s]) + Len(messagesLow'[s])
        < Len(messagesHigh[s]) + Len(messagesNorm[s]) + Len(messagesLow[s])

\* the step removes the head of queue q and leaves the other two queues
\* alone
Releases(s, q) ==
    LET queue == CASE q = "High" -> messagesHigh
                   [] q = "Norm" -> messagesNorm
                   [] q = "Low"  -> messagesLow
    IN  /\ queue[s] # <<>>
        /\ messagesHigh'[s] = IF q = "High" THEN Tail(messagesHigh[s]) ELSE messagesHigh[s]
        /\ messagesNorm'[s] = IF q = "Norm" THEN Tail(messagesNorm[s]) ELSE messagesNorm[s]
        /\ messagesLow'[s] = IF q = "Low" THEN Tail(messagesLow[s]) ELSE messagesLow[s]

\* the step takes the head of queue q and writes it
TakesHead(s, q) ==
    LET queue == CASE q = "High" -> messagesHigh
                   [] q = "Norm" -> messagesNorm
                   [] q = "Low"  -> messagesLow
    IN  Releases(s, q) /\ written'[s] = Append(written[s], Head(queue[s]))

CounterAfter(s) == messagesNormCounter'[s]

\* the part of the table the claim and the code agree on: High first, then
\* Normal while the counter is below 5, and with the counter at 5 and Normal
\* waiting the counter is reset and Low goes before Normal
TableCommon(s) ==
    IF messagesHigh[s] # <<>>
    THEN TakesHead(s, "High") /\ CounterAfter(s) = messagesNormCounter[s]
    ELSE IF messagesNorm[s] # <<>> /\ messagesNormCounter[s] < 5
    THEN TakesHead(s, "Norm") /\ CounterAfter(s) = messagesNormCounter[s] + 1
    ELSE IF messagesNorm[s] # <<>>
    THEN /\ CounterAfter(s) = 0
         /\ IF messagesLow[s] # <<>> THEN TakesHead(s, "Low") ELSE TakesHead(s, "Norm")
    ELSE TRUE

\* with High and Normal empty the head of Low is taken and the counter is
\* left as it is
TableLowOnly(s) ==
    (messagesHigh[s] = <<>> /\ messagesNorm[s] = <<>>) =>
        TakesHead(s, "Low") /\ CounterAfter(s) = messagesNormCounter[s]

\* with High and Normal empty the head of Low is taken and the counter is
\* reset, as the claim words it
TableLowOnlyReset(s) ==
    (messagesHigh[s] = <<>> /\ messagesNorm[s] = <<>>) =>
        TakesHead(s, "Low") /\ CounterAfter(s) = 0

\* a pass of the sending part that finds the three queues empty takes and
\* writes nothing
NothingTaken(s) ==
    (pc[s] = "send" /\ pc'[s] # "send" /\ messagesCount(s) = 0
        /\ internalMessages[s] = <<>>) =>
            /\ written'[s] = written[s]
            /\ messagesNormCounter'[s] = messagesNormCounter[s]

\* C2 as amended: each dequeue step takes the head of High if High is
\* non-empty; else, if Normal is non-empty and the counter is below 5, the
\* head of Normal, and the counter is incremented; else, if Normal is
\* non-empty, the counter is reset to 0 and the head of Low is taken if Low
\* is non-empty, else the head of Normal; else (only Low is non-empty) the
\* head of Low is taken and the counter keeps its value; with all three
\* queues empty nothing is taken
C2_DequeueTable ==
    [][\A s \in Sides :
          /\ Dequeues(s) => TableCommon(s) /\ TableLowOnly(s)
          /\ NothingTaken(s)]_vars

\* C2 as claimed: in every case that is not High and not Normal-below-5 the
\* counter is reset to 0
C2_AsClaimed ==
    [][\A s \in Sides :
          /\ Dequeues(s) => TableCommon(s) /\ TableLowOnlyReset(s)
          /\ NothingTaken(s)]_vars

\* five Normal messages were written in a row, then, with Normal still
\* waiting, the counter was reset and a Low message went first
C2_Witness ==
    /\ messagesNormCounter[Sender] = 0
    /\ Len(AppWritten(Sender)) >= 6
    /\ LET w == AppWritten(Sender) IN
         /\ w[Len(w)].priority = "Low"
         /\ \A k \in 1..5 : w[Len(w) - k].priority = "Normal"
    /\ messagesNorm[Sender] # <<>>

(* ------------------------------ claim C3 ------------------------------ *)

Copies(n, x) == [k \in 1..n |-> x]

\* n Normal and l Low messages in rounds of five Normal and one Low, until
\* Normal is exhausted, then the Low messages that remain
RECURSIVE Rounds(_, _)
Rounds(n, l) ==
    IF n = 0 THEN Copies(l, "Low")
    ELSE IF n < 5 THEN Copies(n, "Normal") \o Copies(l, "Low")
    ELSE IF l = 0 THEN Copies(5, "Normal") \o Rounds(n - 5, 0)
    ELSE Copies(5, "Normal") \o <<"Low">> \o Rounds(n - 5, l - 1)

\* the send order the claim gives for h High, n Normal and l Low messages
ExpectedOrder(h, n, l) == Copies(h, "High") \o Rounds(n, l)

\* how many messages of a priority were queued at the start: those written
\* and those still waiting
CountOf(s, prio) ==
    Len(SelectSeq(AppWritten(s), LAMBDA m : m.priority = prio))
        + (CASE prio = "High"   -> Len(messagesHigh[s])
             [] prio = "Normal" -> Len(messagesNorm[s])
             [] prio = "Low"    -> Len(messagesLow[s]))

PrioritiesWritten(s) == [k \in 1..Len(AppWritten(s)) |-> AppWritten(s)[k].priority]

\* C3: with all messages queued before the first dequeue and none enqueued
\* later, the priorities of the messages written so far are the start of:
\* every High, then five Normal and one Low repeated until Normal is
\* exhausted, then the remaining Low; once the queues are empty the whole
\* order was written
C3_PreloadedOrder ==
    LET expected == ExpectedOrder(CountOf(Sender, "High"), CountOf(Sender, "Normal"),
                                  CountOf(Sender, "Low"))
        w == PrioritiesWritten(Sender)
    IN  /\ Len(w) <= Len(expected)
        /\ w = SubSeq(expected, 1, Len(w))
        /\ messagesCount(Sender) = 0 => w = expected

\* the example of the claim: one High, ten Normal and ten Low were queued
\* and all are written: H, NNNNN, L, NNNNN, L and the eight Low that remain
C3_Witness ==
    /\ messagesCount(Sender) = 0
    /\ PrioritiesWritten(Sender) =
          <<"High">> \o Copies(5, "Normal") \o <<"Low">> \o Copies(5, "Normal")
              \o <<"Low">> \o Copies(8, "Low")

(* ------------------------------ claim C4 ------------------------------ *)

\* message number n of the sender waits in the Normal or in the Low queue
Waiting(n) ==
    \/ \E k \in 1..Len(messagesNorm[Sender]) : messagesNorm[Sender][k].id[3] = n
    \/ \E k \in 1..Len(messagesLow[Sender]) : messagesLow[Sender][k].id[3] = n

\* C4 as claimed: with the worker running, every message that waits in the
\* Normal or the Low queue is eventually dequeued, whatever the application
\* goes on sending
C4_AsClaimed == \A n \in FloodNumbers : Waiting(n) ~> ~Waiting(n)

\* C4 as amended: between Normal and Low neither is starved. While High is
\* empty, a dequeue that takes a Normal message past a waiting Low message
\* finds the counter below 5 and raises it by one, and nothing but a dequeue
\* changes the counter, so at most five Normal messages in a row overtake a
\* waiting Low message; a dequeue that takes a Low message past a waiting
\* Normal message leaves the counter at 0, and with the counter below 5 a
\* waiting Normal message is the next taken, so at most one Low message in
\* a row overtakes a waiting Normal message. High messages go before both.
C4_BoundedOvertaking ==
    [][\A s \in Sides :
          /\ (Dequeues(s) /\ messagesHigh[s] = <<>>) =>
                /\ (messagesLow[s] # <<>> /\ Releases(s, "Norm")) =>
                        /\ messagesNormCounter[s] < 5
                        /\ CounterAfter(s) = messagesNormCounter[s] + 1
                /\ (messagesNorm[s] # <<>> /\ Releases(s, "Low")) => CounterAfter(s) = 0
                /\ (messagesNorm[s] # <<>> /\ messagesNormCounter[s] < 5) =>
                        Releases(s, "Norm")
          /\ (Dequeues(s) /\ messagesHigh[s] # <<>>) =>
                Releases(s, "High") /\ CounterAfter(s) = messagesNormCounter[s]
          /\ ~Dequeues(s) => CounterAfter(s) = messagesNormCounter[s]]_vars

\* the counter reached 5 while the application kept sending, and a Low and
\* a Normal message both wait with High empty: the Low message goes next
C4_Witness ==
    /\ ~observed
    /\ messagesNormCounter[Sender] = 5
    /\ messagesHigh[Sender] = <<>>
    /\ messagesNorm[Sender] # <<>>
    /\ messagesLow[Sender] # <<>>
    /\ pc[Sender] = "send"

(* ------------------------------ claim C6 ------------------------------ *)

\* the message frames among the frames in flight from side s
MessagesInFlight(s) ==
    SelectSeq(wire[s], LAMBDA f : f.kind = "msg")

IsCompatibleCommand(m) == m.command = "ProtocolCompatible" /\ m.type = "Command"

\* side s has read the ProtocolCompatible command of its peer
PeerCompatibleReceived(s) ==
    /\ written[Peer(s)] # <<>>
    /\ IsCompatibleCommand(written[Peer(s)][1])
    /\ \A k \in 1..Len(MessagesInFlight(Peer(s))) :
          ~IsCompatibleCommand(MessagesInFlight(Peer(s))[k].msg)

\* C6: the first message frame a side writes is its ProtocolCompatible
\* command, and a message of the user queues is among the written ones
\* only if the side has read the peer's ProtocolCompatible command and its
\* status is Yes
C6_CompatibleFirst ==
    \A s \in Sides :
        /\ written[s] # <<>> => IsCompatibleCommand(written[s][1])
        /\ AppWritten(s) # <<>> =>
                protocolCompatible[s] = "Yes" /\ PeerCompatibleReceived(s)

\* a worker went through its sending part with a user message queued and
\* the status unknown, and wrote its ProtocolCompatible command only
C6_Witness ==
    \E s \in Sides :
        /\ messagesCount(s) > 0
        /\ protocolCompatible[s] = "Unknown"
        /\ pc[s] = "recv"
        /\ Len(written[s]) = 1
        /\ IsCompatibleCommand(written[s][1])

(* ------------------------------ claim C7 ------------------------------ *)

\* the two windows have a version in common
WindowsOverlap(a, b) == \E v \in a[1]..a[2] : v \in b[1]..b[2]

\* the step in which side s reads the peer's ProtocolCompatible command
\* while its status is unknown
ReadsCompatible(s) ==
    /\ pc[s] = "recv"
    /\ protocolCompatible[s] = "Unknown"
    /\ wire[Peer(s)] # <<>>
    /\ wire'[Peer(s)] = Tail(wire[Peer(s)])
    /\ Head(wire[Peer(s)]).kind = "msg"
    /\ IsCompatibleCommand(Head(wire[Peer(s)]).msg)

IsIncompatibleRequest(m) ==
    /\ m.command = "CloseConnection"
    /\ m.type = "Command"
    /\ m.content = "protocol_incompatible"

\* C7: when a side reads the peer's ProtocolCompatible command, then, if
\* its check is on and the windows of the two builds do not overlap, the
\* status becomes No, a CloseConnection command with the code
\* protocol_incompatible is added to the internal messages and connected is
\* not emitted, in this step or later; otherwise the status becomes Yes and
\* connected is emitted once. The status changes in no other step.
C7_CompatibleReceipt ==
    /\ [][\A s \in Sides :
            /\ ReadsCompatible(s) =>
                  IF checkProtocolCompatibility[s]
                     /\ ~WindowsOverlap(version[s], version[Peer(s)])
                  THEN /\ protocolCompatible'[s] = "No"
                       /\ connectedCount'[s] = connectedCount[s]
                       /\ Len(internalMessages'[s]) = Len(internalMessages[s]) + 1
                       /\ IsIncompatibleRequest(
                              internalMessages'[s][Len(internalMessages'[s])])
                  ELSE /\ protocolCompatible'[s] = "Yes"
                       /\ connectedCount'[s] = connectedCount[s] + 1
                       /\ internalMessages'[s] = internalMessages[s]
            /\ ~ReadsCompatible(s) =>
                  /\ protocolCompatible'[s] = protocolCompatible[s]
                  /\ connectedCount'[s] = connectedCount[s]]_vars
    /\ [](\A s \in Sides : protocolCompatible[s] = "No" => connectedCount[s] = 0)

\* one side has its check on and found the windows disjoint: its status is
\* No and its request to close is written; the other side has its check
\* off and is connected
C7_Witness ==
    \E s \in Sides :
        /\ protocolCompatible[s] = "No"
        /\ \E k \in 1..Len(written[s]) : IsIncompatibleRequest(written[s][k])
        /\ protocolCompatible[Peer(s)] = "Yes"
        /\ connectedCount[Peer(s)] = 1

(* ------------------------------ claim C10 ----------------------------- *)

\* the step in which side s reads a CloseConnection message
ReadsCloseConnection(s) ==
    /\ pc[s] = "recv"
    /\ sock[s] = "connected"
    /\ wire[Peer(s)] # <<>>
    /\ wire'[Peer(s)] = Tail(wire[Peer(s)])
    /\ Head(wire[Peer(s)]).kind = "msg"
    /\ Head(wire[Peer(s)]).msg.command = "CloseConnection"

\* the step adds exactly one message to the internal messages of side s:
\* an Answer with the id of m and no content
QueuesOneAnswer(s, m) ==
    /\ Len(internalMessages'[s]) = Len(internalMessages[s]) + 1
    /\ SubSeq(internalMessages'[s], 1, Len(internalMessages[s])) = internalMessages[s]
    /\ LET a == internalMessages'[s][Len(internalMessages'[s])]
       IN  /\ a.type = "Answer"
           /\ a.command = "CloseConnection"
           /\ a.id = m.id
           /\ a.content = ""

\* the id of the CloseConnection Command side s wrote last, if it wrote one
LastCloseCommandId(s) ==
    LET w == SelectSeq(written[s], LAMBDA m : m.command = "CloseConnection"
                                               /\ m.type = "Command")
    IN  IF w = <<>> THEN NullId ELSE w[Len(w)].id

\* C10: a side that reads a CloseConnection Command queues exactly one
\* Answer with the same id and empty content, delivers the Command to the
\* application and stays in its loop; a side that reads a CloseConnection
\* Answer queues and delivers nothing, and leaves its loop exactly if the
\* id of the Answer is the id of the CloseConnection Command it wrote (the
\* last one, had it written several)
C10_CloseConnectionReceipt ==
    [][\A s \in Sides :
          ReadsCloseConnection(s) =>
            LET m == Head(wire[Peer(s)]).msg IN
            IF m.type = "Command"
            THEN /\ QueuesOneAnswer(s, m)
                 /\ delivered'[s] = Append(delivered[s], m)
                 /\ pc'[s] # "close"
            ELSE /\ internalMessages'[s] = internalMessages[s]
                 /\ delivered'[s] = delivered[s]
                 /\ (pc'[s] = "close") <=> (m.id = LastCloseCommandId(s))]_vars

\* a side that wrote a CloseConnection Command has read a CloseConnection
\* Answer with another id, sent by the application of its peer, and is
\* still in its loop
C10_Witness ==
    \E s \in Sides :
        /\ commandCloseConnectionId[s] # NullId
        /\ pc[s] = "proc"
        /\ \E k \in 1..Len(written[Peer(s)]) :
              /\ written[Peer(s)][k].command = "CloseConnection"
              /\ written[Peer(s)][k].type = "Answer"
              /\ written[Peer(s)][k].id # commandCloseConnectionId[s]
        /\ wire[Peer(s)] = <<>>

(* ------------------------------ claim C5 ------------------------------ *)

WrittenIds(s) == {written[s][k].id : k \in 1..Len(written[s])}

\* C5: no message is written twice; once the worker of a listener-side
\* socket has ended (the listener then discards the socket), every message
\* send() accepted on it was written or its discarding was logged; and
\* once a worker has ended, the discarding of every message it had read
\* and not yet emitted was logged
C5_NothingLost ==
    \A s \in Sides :
        /\ \A i, j \in 1..Len(written[s]) :
              written[s][i].id = written[s][j].id => i = j
        /\ (pc[s] = "closed" /\ isListenerSide(s)) =>
              accepted[s] \subseteq (WrittenIds(s) \cup dropLog[s])
        /\ pc[s] = "closed" =>
              \A k \in 1..Len(acceptMessages[s]) : acceptMessages[s][k].id \in dropLog[s]

(* ------------------------------ claim C8 ------------------------------ *)

\* the CloseConnection Commands side s delivered to its application
CloseCommandsDelivered(s) ==
    SelectSeq(delivered[s], LAMBDA m : m.command = "CloseConnection"
                                        /\ m.type = "Command")

\* side s wrote the Answer to the CloseConnection Command it delivered
Acknowledged(s) ==
    \E k \in 1..Len(written[s]) :
        /\ written[s][k].command = "CloseConnection"
        /\ written[s][k].type = "Answer"
        /\ written[s][k].id = CloseCommandsDelivered(s)[1].id

\* side s read the Answer to the CloseConnection Command it wrote
AnswerRead(s) ==
    /\ \E k \in 1..Len(written[Peer(s)]) :
          /\ written[Peer(s)][k].type = "Answer"
          /\ written[Peer(s)][k].id = LastCloseCommandId(s)
    /\ \A k \in 1..Len(wire[Peer(s)]) : wire[Peer(s)][k].msg.type # "Answer"

BothClosed == \A s \in Sides : pc[s] = "closed" /\ sock[s] = "closed"

\* C8: two endpoints with disjoint windows and the check on connect.
\* Neither side ever emits connected or delivers a second CloseConnection
\* Command; unless stop() is called, a socket fails or the link hangs, both
\* workers end with the socket closed, and then each side has delivered
\* exactly one CloseConnection Command and has written the Answer to it,
\* and a side has read the Answer to its own Command
C8_IncompatibleClose ==
    /\ [](\A s \in Sides :
            connectedCount[s] = 0 /\ Len(CloseCommandsDelivered(s)) <= 1)
    /\ []((BothClosed /\ faults = 0) =>
            /\ \A s \in Sides :
                  Len(CloseCommandsDelivered(s)) = 1 /\ Acknowledged(s)
            /\ \E s \in Sides : AnswerRead(s))
    /\ <>(BothClosed \/ faults > 0)

\* both workers have ended with nothing having disturbed the connection,
\* each after delivering the peer's CloseConnection Command
C8_Witness ==
    /\ BothClosed
    /\ faults = 0
    /\ \A s \in Sides :
          /\ protocolCompatible[s] = "No"
          /\ Len(CloseCommandsDelivered(s)) = 1

(* ------------------------------ claim C9 ------------------------------ *)

\* C9: a side that has written a CloseConnection Command eventually closes
\* its socket, whether or not the Answer arrives
C9_ClosesAfterRequest ==
    \A s \in Sides : (LastCloseCommandId(s) # NullId) ~> (sock[s] = "closed")

(* ------------------------------ claim C11 ----------------------------- *)

\* the signature of the client's format is in no row of the listener's table
UnknownSignature == SignatureRows("listener", serializeSignature("client")) = {}

\* side s reads a signature in this step
ReadsSignature(s) ==
    /\ pc[s] = "sigWait"
    /\ socketBytesAvailable(s) # <<>>
    /\ pc'[s] # "sigWait"

\* side s never got into the loop: it emitted no connected, wrote no message
\* and delivered none
NeverConnected(s) ==
    /\ pc[s] \in {"off", "sigSend", "sigWait", "keyWait", "close", "closed"}
    /\ connectedCount[s] = 0
    /\ written[s] = <<>>
    /\ delivered[s] = <<>>

\* C11: when the listener side reads a signature that is in no row of its
\* table it writes back the null signature (on a socket that is still
\* connected) and goes to close the connection; the client that reads a
\* signature other than the one it sent goes to close it; neither side
\* emits connected, writes a message or delivers one.
C11_UnknownSignature ==
    /\ [](UnknownSignature => \A s \in Sides : NeverConnected(s))
    /\ [][/\ (ReadsSignature("listener")
                /\ SignatureRows("listener",
                                 Head(socketBytesAvailable("listener")).signature) = {})
             => /\ pc'["listener"] = "close"
                /\ socketIsConnectedInternal("listener")
                     => wire'["listener"] =
                            Append(wire["listener"], SigFrame(NullSignature))
          /\ (ReadsSignature("client")
                /\ Head(socketBytesAvailable("client")).signature
                       # serializeSignature("client"))
             => /\ pc'["client"] = "close"
                /\ connectedCount'["client"] = 0]_vars

\* the listener side read the signature of a json client, which its build
\* lacks, and wrote the null signature; the client read it and closed
C11_Witness ==
    /\ UnknownSignature
    /\ faults = 0
    /\ pc["listener"] \in {"close", "closed"}
    /\ pc["client"] = "closed"
    /\ wire["listener"] = <<>>
    /\ wire["client"] = <<>>

(* ------------------------------ claim C12 ----------------------------- *)

\* the listener allows only encrypted connections and the client's
\* signature is the one of an unencrypted row of the listener's table
KnownUnencrypted ==
    /\ onlyEncrypted
    /\ ~encryption["client"]
    /\ ~UnknownSignature

\* the listener side reads such a signature in this step
ReadsUnencrypted ==
    /\ KnownUnencrypted
    /\ ReadsSignature("listener")

\* C12 as claimed: the listener side that reads a known but unencrypted
\* signature while only encrypted connections are allowed writes back the
\* null signature before it closes.
C12_AsClaimed ==
    [][(ReadsUnencrypted /\ socketIsConnectedInternal("listener"))
          => /\ wire'["listener"] = Append(wire["listener"], SigFrame(NullSignature))
             /\ pc'["listener"] = "close"]_vars

\* C12: the listener side that reads a known but unencrypted signature
\* while only encrypted connections are allowed writes nothing back and goes
\* to close the connection; it never writes anything on that connection, and
\* neither side emits connected, writes a message or delivers one.
C12_RefusedSilently ==
    /\ [](KnownUnencrypted
            => /\ wire["listener"] = <<>>
               /\ \A s \in Sides : NeverConnected(s))
    /\ [][ReadsUnencrypted
            => /\ wire'["listener"] = wire["listener"]
               /\ pc'["listener"] = "close"]_vars

\* the listener side read the plain signature and closed, and the client,
\* which got no signature back, closed after it
C12_Witness ==
    /\ KnownUnencrypted
    /\ faults = 0
    /\ wire["client"] = <<>>
    /\ pc["listener"] = "closed"
    /\ pc["client"] = "closed"

(* ------------------------------ claim C13 ----------------------------- *)

\* the handshake of side s succeeded: its worker is in the loop
InLoop(s) == pc[s] \in {"top", "send", "recv", "proc"}

\* the listener side ends its handshake with success in this step
ListenerAccepts ==
    /\ pc["listener"] \in {"sigWait", "keyWait"}
    /\ pc'["listener"] = "top"

\* what the listener side writes when it accepts the client's signature
AcceptanceOf(sig, enc) ==
    IF enc THEN <<SigFrame(sig), KeyFrame(PublicKeyBytes)>> ELSE <<SigFrame(sig)>>

\* every message in flight was serialized and encrypted the way its reader
\* parses and decrypts
FramesReadable ==
    \A s \in Sides : \A k \in 1..Len(wire[s]) :
        wire[s][k].kind = "msg" => Readable(Peer(s), wire[s][k])

\* C13: once the handshake of either side has succeeded, the format and the
\* encryption flag of the listener-side socket are the ones the client
\* socket was set to; the signature the listener side wrote back on success
\* is the one the client sent; and every message frame in flight is in the
\* format and encryption mode its reader uses.
C13_SameFormat ==
    /\ []((\E s \in Sides : InLoop(s))
            => /\ messageFormat["listener"] = messageFormat["client"]
               /\ encryption["listener"] = encryption["client"])
    /\ []FramesReadable
    /\ [][ListenerAccepts
            => wire'["listener"] =
                   wire["listener"] \o AcceptanceOf(serializeSignature("client"),
                                                    encryption["client"])]_vars

\* a json client with encryption and the listener side it connected to have
\* both read the other's first message
C13_Witness ==
    /\ messageFormat = [s \in Sides |-> "Json"]
    /\ encryption = [s \in Sides |-> TRUE]
    /\ \A s \in Sides : InLoop(s) /\ connectedCount[s] = 1

(* ------------------------------ claim C14 ----------------------------- *)

\* a call of libsodium or a read of side s fails in this step of its worker
CallFails(s) == pc'[s] # pc[s] /\ faults' # faults

\* the key exchange of side s fails in this step: the keypair is not
\* generated, the peer's key does not come (the socket is found disconnected
\* or the time is out), it has the wrong length or is not read whole, or the
\* shared secret is not derived
KeyExchangeFails(s) ==
    /\ encryption[s]
    /\ \/ pc[s] = "sigSend" /\ CallFails(s)
       \/ /\ pc[s] = "keyWait"
          /\ pc'[s] # "keyWait"
          /\ \/ socketBytesAvailable(s) = <<>>
             \/ Head(socketBytesAvailable(s)).keySize # PublicKeyBytes
             \/ CallFails(s)

\* C14: on an encrypted connection the step in which the key exchange of a
\* side fails takes its worker to the close of the socket, and that side
\* has not and will not emit connected, write a message frame or parse one.
C14_KeyFailure ==
    /\ [][\A s \in Sides :
              KeyExchangeFails(s) => pc'[s] = "close" /\ NeverConnected(s)']_vars
    /\ [][\A s \in Sides :
              (pc[s] \in {"close", "closed"} /\ NeverConnected(s))
                  => NeverConnected(s)']_vars

\* the listener side read the signature and the public key of an encrypted
\* client, rejected the key or failed to derive the secret, and is about to
\* close while the client still waits for the signature
C14_Witness ==
    /\ encryption["listener"]
    /\ pc["listener"] = "close"
    /\ pc["client"] = "sigWait"
    /\ wire["client"] = <<>>
    /\ wire["listener"] = <<>>
    /\ sock["listener"] = "connected"
    /\ faults = 1
    /\ NeverConnected("listener")

(* ------------------------------ claim C15 ----------------------------- *)

\* when its worker is at the head of the loop, not asked to stop and its
\* socket connected: the echo timer of side s ran out with no echo from the
\* peer, that is, on a client with its last EchoConnection command not
\* answered, on the listener side with no EchoConnection command since the
\* timer was started
EchoLapsed(s) ==
    /\ pc[s] = "top"
    /\ ~threadStop[s]
    /\ socketIsConnectedInternal(s)
    /\ echoTimeout[s] > 0
    /\ echoExpired[s]
    /\ isListenerSide(s) \/ commandEchoConnectionId[s] # NullId

\* side s delivered the EchoConnection message it made up
LossDelivered(s) ==
    \E k \in 1..Len(delivered[s]) : delivered[s][k] = EchoLost(s)

\* C15: with a positive echo timeout, the worker that comes to the head of
\* its loop with the echo timer run out and no echo from the peer delivers
\* an EchoConnection message of its own making to the application and goes
\* to close the socket; after that delivery it does nothing but close.
C15_EchoTimeout ==
    /\ [][\A s \in Sides :
              (EchoLapsed(s) /\ pc'[s] # pc[s])
                  => /\ delivered'[s] = Append(delivered[s], EchoLost(s))
                     /\ pc'[s] = "close"]_vars
    /\ [](\A s \in Sides :
              LossDelivered(s)
                  => /\ pc[s] \in {"close", "closed"}
                     /\ delivered[s][Len(delivered[s])] = EchoLost(s)
                     /\ pc[s] = "closed" => sock[s] = "closed")

\* the client's echo was not answered in time and the listener side, which
\* had taken over the timeout, got no further echo in time: each delivered
\* its own EchoConnection and closed
C15_Witness ==
    /\ echoTimeout["listener"] > 0
    /\ \A s \in Sides : LossDelivered(s) /\ pc[s] = "closed"

(* ------------------------------ claim C16 ----------------------------- *)

\* the EchoConnection messages side s wrote, Commands and Answers
EchoWritten(s) == SelectSeq(written[s], LAMBDA m : m.command = "EchoConnection")

\* C16: with the echo timeout of the client socket zero or negative, the
\* echo timeout of the listener side stays 0, no EchoConnection message is
\* queued, written or in flight on either side, and no side delivers the
\* EchoConnection message of the echo timer or is taken to the close of the
\* socket by it.
C16_NoEcho ==
    /\ [](echoTimeout["client"] <= 0
            => \A s \in Sides :
                  /\ echoTimeout[s] <= 0
                  /\ EchoWritten(s) = <<>>
                  /\ \A k \in 1..Len(internalMessages[s]) :
                        internalMessages[s][k].command # "EchoConnection"
                  /\ commandEchoConnectionId[s] = NullId
                  /\ ~LossDelivered(s))
    /\ [][\A s \in Sides :
              (echoTimeout["client"] <= 0 /\ pc[s] = "top" /\ pc'[s] = "close")
                  => threadStop[s] \/ ~socketIsConnectedInternal(s)]_vars

\* a client with a negative echo timeout and the listener side it connected
\* to have exchanged their first messages and wait with nothing to do
C16_Witness ==
    /\ echoTimeout["client"] < 0
    /\ \A s \in Sides :
          /\ pc[s] = "top"
          /\ connectedCount[s] = 1
          /\ Idle(s)
          /\ sock[s] = "connected"

(* ------------------------------ claim C17 ----------------------------- *)

\* the EchoConnection Commands side s wrote
EchoCommandsWritten(s) ==
    SelectSeq(written[s], LAMBDA m : m.command = "EchoConnection" /\ m.type = "Command")

\* the step in which side s reads an EchoConnection Command
ReadsEchoCommand(s) ==
    /\ pc[s] = "recv"
    /\ sock[s] = "connected"
    /\ wire[Peer(s)] # <<>>
    /\ wire'[Peer(s)] = Tail(wire[Peer(s)])
    /\ Head(wire[Peer(s)]).kind = "msg"
    /\ Head(wire[Peer(s)]).msg.command = "EchoConnection"
    /\ Head(wire[Peer(s)]).msg.type = "Command"

\* the listener side wrote the Answer to the client's first echo
FirstEchoAnswered ==
    \E k \in 1..Len(written["listener"]) :
        /\ written["listener"][k].command = "EchoConnection"
        /\ written["listener"][k].type = "Answer"
        /\ written["listener"][k].id = <<"client", "EchoConnection", 0>>

\* C17: the first EchoConnection Command the client writes carries the
\* client's echo timeout in its tag; the listener side that reads an
\* EchoConnection Command queues one Answer with the id of the Command, and
\* takes a positive tag for its own echo timeout; once it has read the
\* client's first echo its echo timeout is the client's.
C17_EchoTimeoutCopied ==
    /\ [](/\ EchoCommandsWritten("client") # <<>>
             => tag(EchoCommandsWritten("client")[1], 0) = echoTimeout["client"]
          /\ echoTimeout["listener"] \in {0, echoTimeout["client"]}
          /\ FirstEchoAnswered => echoTimeout["listener"] = echoTimeout["client"])
    /\ [][ReadsEchoCommand("listener")
            => LET m == Head(wire["client"]).msg IN
               /\ Len(internalMessages'["listener"]) = Len(internalMessages["listener"]) + 1
               /\ internalMessages'["listener"][Len(internalMessages'["listener"])]
                      = cloneForAnswer(m)
               /\ cloneForAnswer(m).id = m.id
               /\ cloneForAnswer(m).type = "Answer"
               /\ tag(m, 0) > 0 => echoTimeout'["listener"] = tag(m, 0)
               /\ m = EchoCommandsWritten("client")[1]
                      => echoTimeout'["listener"] = echoTimeout["client"]]_vars

\* the listener side has answered the client's first echo and a later one
C17_Witness ==
    /\ echoTimeout["listener"] = echoTimeout["client"]
    /\ echoTimeout["client"] > 0
    /\ Len(EchoWritten("listener")) = 2
    /\ Len(EchoCommandsWritten("client")) = 2

(* ------------------------------ claim C18 ----------------------------- *)

\* the client writes an EchoConnection Command in this step
WritesEchoCommand(s) ==
    /\ Len(written'[s]) = Len(written[s]) + 1
    /\ written'[s][Len(written'[s])].command = "EchoConnection"
    /\ written'[s][Len(written'[s])].type = "Command"

\* C18 as claimed: when the client writes its first EchoConnection Command
\* its compatibility status has left Unknown.
C18_AsClaimed ==
    [][(WritesEchoCommand("client") /\ EchoCommandsWritten("client") = <<>>)
          => protocolCompatible["client"] # "Unknown"]_vars

\* C18: the client writes its first EchoConnection Command as its second
\* message, next after its own ProtocolCompatible Command, whatever its
\* compatibility status is at that time; it writes no echo before.
C18_EchoAfterFirstMessage ==
    /\ [](EchoCommandsWritten("client") # <<>>
            => /\ Len(written["client"]) >= 2
               /\ IsCompatibleCommand(written["client"][1])
               /\ written["client"][2] = EchoCommandsWritten("client")[1]
               /\ written["client"][2].id = <<"client", "EchoConnection", 0>>)
    /\ [][(WritesEchoCommand("client") /\ EchoCommandsWritten("client") = <<>>)
            => /\ Len(written["client"]) = 1
               /\ IsCompatibleCommand(written["client"][1])]_vars

\* the client has written its first echo and has not read the listener's
\* ProtocolCompatible Command yet
C18_Witness ==
    /\ Len(written["client"]) = 2
    /\ EchoCommandsWritten("client") # <<>>
    /\ protocolCompatible["client"] = "Unknown"
    /\ connectedCount["client"] = 0

(* ------------------------------ claim C19 ----------------------------- *)

\* the messages in the three queues of side s
QueuedSet(s) ==
    {messagesHigh[s][k] : k \in 1..Len(messagesHigh[s])}
        \cup {messagesNorm[s][k] : k \in 1..Len(messagesNorm[s])}
        \cup {messagesLow[s][k] : k \in 1..Len(messagesLow[s])}

\* the worker of side s has read and taken up an Unknown notice that names
\* command c: its peer wrote one, and it is neither in flight nor waiting
\* among the accepted messages
ReceivedUnknown(s, c) ==
    \E k \in 1..Len(written[Peer(s)]) :
        /\ written[Peer(s)][k].command = "Unknown"
        /\ written[Peer(s)][k].content = c
        /\ \A j \in 1..Len(wire[Peer(s)]) : wire[Peer(s)][j].msg # written[Peer(s)][k]
        /\ \A j \in 1..Len(acceptMessages[s]) : acceptMessages[s][j] # written[Peer(s)][k]

\* side s checks for commands unknown to its peer and has recorded c as one
Recorded(s, c) == checkUnknownCommands[s] /\ c \in unknownCommands[s]

\* the application calls send() in this step
SendCalled == sendCount' = sendCount + 1

\* the step in which the worker of side s takes an Unknown notice from the
\* accepted messages
TakesUnknownNotice(s) ==
    /\ pc[s] = "proc"
    /\ protocolCompatible[s] = "Yes"
    /\ acceptMessages[s] # <<>>
    /\ Head(acceptMessages[s]).command = "Unknown"
    /\ acceptMessages'[s] = Tail(acceptMessages[s])

\* C19 as claimed: once the worker of side s has taken up an Unknown notice
\* that names a command, no send() of a message with that command is
\* accepted.
C19_AsClaimed ==
    [][\A s \in Sides :
          (SendCalled /\ accepted'[s] # accepted[s])
              => \A m \in QueuedSet(s)' :
                    m.id = <<s, "User", sendCount + 1>> => ~ReceivedUnknown(s, m.command)]_vars

\* C19: a socket that checks for unknown commands records the command an
\* Unknown notice names when its worker takes the notice from the accepted
\* messages, and does not deliver the notice; the record is never undone;
\* from then on send() of a message with that command returns false and
\* leaves the three queues as they are, while send() of a command not
\* recorded is accepted as long as the worker runs.
C19_UnknownRejected ==
    /\ [](\A s \in Sides : \A tmpl \in UnknownTemplates :
              LET m == UserMessage(s, sendCount + 1, tmpl) IN
              /\ Recorded(s, m.command) => ~SendAccepts(s, m)
              /\ (isRunning(s) /\ ~Recorded(s, m.command)) => SendAccepts(s, m))
    /\ [][\A s \in Sides :
              /\ SendCalled
                   => IF accepted'[s] = accepted[s]
                      THEN /\ messagesHigh'[s] = messagesHigh[s]
                           /\ messagesNorm'[s] = messagesNorm[s]
                           /\ messagesLow'[s] = messagesLow[s]
                      ELSE \A m \in QueuedSet(s)' :
                              m.id = <<s, "User", sendCount + 1>>
                                  => ~Recorded(s, m.command)
              /\ (TakesUnknownNotice(s) /\ checkUnknownCommands[s])
                   => /\ unknownCommands'[s] =
                             unknownCommands[s] \cup {Head(acceptMessages[s]).content}
                      /\ delivered'[s] = delivered[s]
              /\ unknownCommands[s] \subseteq unknownCommands'[s]]_vars

\* the client sent its private command, recorded the listener's notice, had
\* its next send() refused and a send() of a command both know accepted
C19_Witness ==
    /\ faults = 0
    /\ InLoop("client")
    /\ Recorded("client", "Private")
    /\ sendCount = MaxUnknown
    /\ accepted["client"] = {<<"client", "User", 1>>, <<"client", "User", MaxUnknown>>}

(* ------------------------------ claim C20 ----------------------------- *)

\* the step in which the worker of side s takes a message from the accepted
\* messages whose command its registry does not hold
TakesUnregistered(s) ==
    /\ pc[s] = "proc"
    /\ protocolCompatible[s] = "Yes"
    /\ acceptMessages[s] # <<>>
    /\ ~commandExists(s, Head(acceptMessages[s]).command)
    /\ acceptMessages'[s] = Tail(acceptMessages[s])

\* the messages delivered to the application of side s
DeliveredSet(s) == {delivered[s][k] : k \in 1..Len(delivered[s])}

\* C20 as claimed: no message whose command is missing from the registry of
\* its receiver is delivered to the application.
C20_AsClaimed ==
    \A s \in Sides : \A m \in DeliveredSet(s) : commandExists(s, m.command)

\* C20: on a socket that checks for unknown commands, the step that takes a
\* received message whose command is not in the registry delivers nothing
\* and queues exactly one Unknown message naming that command for the peer;
\* no such message is ever delivered there.
C20_UnknownAnswered ==
    /\ [](\A s \in Sides : checkUnknownCommands[s]
              => \A m \in DeliveredSet(s) : commandExists(s, m.command))
    /\ [][\A s \in Sides :
              (TakesUnregistered(s) /\ checkUnknownCommands[s])
                  => /\ delivered'[s] = delivered[s]
                     /\ Len(internalMessages'[s]) = Len(internalMessages[s]) + 1
                     /\ SubSeq(internalMessages'[s], 1, Len(internalMessages[s]))
                            = internalMessages[s]
                     /\ LET notice == internalMessages'[s][Len(internalMessages'[s])] IN
                        /\ notice.command = "Unknown"
                        /\ notice.content = Head(acceptMessages[s]).command]_vars

\* the listener has answered the client's private command with an Unknown
\* notice, which is the only one it wrote, and delivered nothing
C20_Witness ==
    /\ checkUnknownCommands["listener"]
    /\ \E k \in 1..Len(written["client"]) : written["client"][k].command = "Private"
    /\ wire["client"] = <<>>
    /\ acceptMessages["listener"] = <<>>
    /\ Cardinality({k \in 1..Len(written["listener"]) :
            /\ written["listener"][k].command = "Unknown"
            /\ written["listener"][k].content = "Private"}) = 1
    /\ delivered["listener"] = <<>>

(* ------------------------------ claim C21 ----------------------------- *)

\* the message a dequeuing step of the worker of side s takes
Dequeued(s) ==
    IF Len(messagesHigh'[s]) < Len(messagesHigh[s]) THEN Head(messagesHigh[s])
    ELSE IF Len(messagesNorm'[s]) < Len(messagesNorm[s]) THEN Head(messagesNorm[s])
    ELSE Head(messagesLow[s])

\* a message with content that a json-framed socket is not to write: the
\* content is in another format, or compressed
JsonUnfit(s, m) ==
    /\ messageFormat[s] = "Json"
    /\ m.content # ""
    /\ \/ m.contentFormat # "Json"
       \/ m.compression \in {"Zip", "Lzma", "Ppmd"}

\* the messages of the frames side s wrote that are still in flight
InFlight(s) ==
    {wire[s][k].msg : k \in {j \in 1..Len(wire[s]) : wire[s][j].kind = "msg"}}

\* C21: on a json-framed socket no message with content that is not json or
\* is compressed is ever written; the step that dequeues such a message
\* writes nothing, logs the message as discarded, and leaves the worker in
\* the sending part with the socket connected.
C21_JsonDiscarded ==
    /\ [](\A s \in Sides :
            /\ \A k \in 1..Len(written[s]) : ~JsonUnfit(s, written[s][k])
            /\ \A m \in InFlight(s) : ~JsonUnfit(s, m))
    /\ [][\A s \in Sides :
            (Dequeues(s) /\ JsonUnfit(s, Dequeued(s)))
                => /\ written'[s] = written[s]
                   /\ wire'[s] = wire[s]
                   /\ dropLog'[s] = dropLog[s] \cup {Dequeued(s).id}
                   /\ pc'[s] = "send"
                   /\ sock' = sock
                   /\ threadStop' = threadStop]_vars

\* the json-framed client discarded its first message and wrote its second,
\* which has content, and the listener delivered that one
C21_Witness ==
    /\ messageFormat["client"] = "Json"
    /\ dropLog["client"] = {<<"client", "User", 1>>}
    /\ \E k \in 1..Len(written["client"]) :
          /\ written["client"][k].id = <<"client", "User", 2>>
          /\ written["client"][k].content # ""
    /\ \E k \in 1..Len(delivered["listener"]) :
          delivered["listener"][k].id = <<"client", "User", 2>>
    /\ sock["client"] = "connected"
    /\ pc["client"] \notin {"close", "closed"}

(* ------------------------------ claim C22 ----------------------------- *)

\* the bytes side s serializes message m to, by the format of its socket
BuffSize(s, m) == IF messageFormat[s] = "Json" THEN toJsonSize(m) ELSE size(m)

\* the message frames of side s in flight
FramesInFlight(s) ==
    {wire[s][k] : k \in {j \in 1..Len(wire[s]) : wire[s][j].kind = "msg"}}

\* C22: a frame is compressed exactly when the socket that wrote it is not
\* local, the compression of the message is None, the serialized message is
\* larger than compressionSize and compressionLevel is not 0; a message
\* serialized to exactly compressionSize bytes is written uncompressed.
C22_CompressedIff ==
    \A s \in Sides : \A frame \in FramesInFlight(s) :
        /\ frame.isCompressed
              <=> /\ ~loopback[s]
                  /\ frame.msg.compression = "None"
                  /\ BuffSize(s, frame.msg) > compressionSize[s]
                  /\ compressionLevel[s] # 0
        /\ BuffSize(s, frame.msg) = compressionSize[s] => ~frame.isCompressed

\* the client, not local and with compression enabled, has written a message
\* of exactly compressionSize bytes uncompressed and a larger one compressed
C22_Witness ==
    /\ ~loopback["client"]
    /\ compressionLevel["client"] # 0
    /\ Len(wire["client"]) = 2
    /\ BuffSize("client", wire["client"][1].msg) = compressionSize["client"]
    /\ wire["client"][1].msg.compression = "None"
    /\ ~wire["client"][1].isCompressed
    /\ BuffSize("client", wire["client"][2].msg) = compressionSize["client"] + 1
    /\ wire["client"][2].isCompressed

(* ------------------------------ claim C23 ----------------------------- *)

\* the properties of side s are as constructed: no setter was called
NeverChanged(s) == compressionLevelAsked[s] = <<>>

\* the frames of side s in flight whose message is serialized to more than
\* 1024 bytes
LargeFrames(s) == {frame \in FramesInFlight(s) : BuffSize(s, frame.msg) > 1024}

\* C23 as claimed: a socket or listener whose properties were never changed
\* has compression level -1 and compression size 1024, and its frames
\* larger than 1024 bytes are compressed.
C23_AsClaimed ==
    \A s \in Sides :
        NeverChanged(s)
            => /\ compressionLevel[s] = -1
               /\ compressionSize[s] = 1024
               /\ \A frame \in LargeFrames(s) : frame.isCompressed

\* C23: a socket or listener whose properties were never changed has
\* compression level 0 and compression size 1024, and none of its frames is
\* compressed, whatever their size; setCompressionLevel keeps a value from
\* -1 to 9 and takes -1 for a smaller, 9 for a larger one; with a level
\* other than 0 a frame larger than 1024 bytes is compressed.
C23_DefaultsAndBound ==
    \A s \in Sides :
        /\ NeverChanged(s)
              => /\ compressionLevel[s] = 0
                 /\ compressionSize[s] = 1024
                 /\ \A frame \in FramesInFlight(s) : ~frame.isCompressed
        /\ compressionLevel[s] \in -1..9
        /\ ~NeverChanged(s)
              => LET val == compressionLevelAsked[s][Len(compressionLevelAsked[s])] IN
                 /\ val \in -1..9 => compressionLevel[s] = val
                 /\ val < -1 => compressionLevel[s] = -1
                 /\ val > 9 => compressionLevel[s] = 9
        /\ compressionLevel[s] # 0 => \A frame \in LargeFrames(s) : frame.isCompressed

\* the client socket, its properties never changed, has written a frame of
\* 1025 bytes uncompressed; the listener was given the level 10 and has 9
C23_Witness ==
    /\ NeverChanged("client")
    /\ \E frame \in LargeFrames("client") : ~frame.isCompressed
    /\ compressionLevelAsked["listener"] = <<10>>
    /\ compressionLevel["listener"] = 9

(* ------------------------------ claim C24 ----------------------------- *)

\* the absolute value of a length
Abs(n) == IF n < 0 THEN -1 * n ELSE n

\* the worker of side s reads the frame at the head of the stream
ReadsFrame(s) ==
    /\ pc[s] = "recv"
    /\ wire[Peer(s)] # <<>>
    /\ Head(wire[Peer(s)]).kind = "msg"
    /\ wire'[Peer(s)] = Tail(wire[Peer(s)])

\* C24: without encryption, the length written before a raw buffer is
\* positive and the one before a compressed buffer negative, and its
\* absolute value is the number of bytes written after it; the reader
\* decompresses exactly when the length is negative, which is exactly when
\* the buffer is compressed, and takes the message of the frame as received.
C24_LengthSign ==
    /\ [](\A s \in Sides : \A frame \in FramesInFlight(s) :
            ~frame.encryption
                => /\ ~frame.isCompressed => frame.length > 0
                   /\ frame.isCompressed => frame.length < 0
                   /\ Abs(frame.length) = frame.bodySize
                   /\ Decompresses(Peer(s), frame) <=> frame.length < 0
                   /\ Decompresses(Peer(s), frame) <=> frame.isCompressed)
    /\ [][\A s \in Sides :
            (ReadsFrame(s) /\ ~encryption[s])
                => /\ acceptMessages'[s] =
                          Append(acceptMessages[s], Head(wire[Peer(s)]).msg)
                   /\ dropLog'[s] = dropLog[s]
                   /\ pc'[s] # "close"]_vars

\* the listener has delivered the first message of the client, which came
\* in a compressed frame, and the second is in flight in a raw one
C24_Witness ==
    /\ ~encryption["client"]
    /\ ~loopback["client"]
    /\ compressionLevel["client"] # 0
    /\ \E k \in 1..Len(delivered["listener"]) :
          /\ delivered["listener"][k].id = <<"client", "User", 1>>
          /\ delivered["listener"][k].compression = "None"
          /\ BuffSize("client", delivered["listener"][k]) > compressionSize["client"]
    /\ \E frame \in FramesInFlight("client") :
          /\ frame.msg.id = <<"client", "User", 2>>
          /\ frame.length > 0
          /\ ~frame.isCompressed
(* ------------------------------ claim C25 ----------------------------- *)

\* the marks of the socket a message came from (message.h:213-236)
SocketMarks(m) ==
    <<m.socketType, m.sourcePoint, m.socketDescriptor, m.socketName>>

\* C25: the message cloneForAnswer returns for m has the id, the command,
\* the protocol versions, the tags, the maximum time of life and the socket
\* marks of m; it is an Answer of status Success and compression None, its
\* content is empty and so are its destination points and sockets; m is
\* after the call what it was before.
C25_CloneForAnswer ==
    codec.operation = "cloneForAnswer" =>
        LET m == codec.origin
            answer == codec.answer
        IN  /\ answer.id = m.id
            /\ answer.command = m.command
            /\ answer.protocolVersionLow = m.protocolVersionLow
            /\ answer.protocolVersionHigh = m.protocolVersionHigh
            /\ answer.tags = m.tags
            /\ answer.maxTimeLife = m.maxTimeLife
            /\ SocketMarks(answer) = SocketMarks(m)
            /\ answer.type = "Answer"
            /\ answer.execStatus = "Success"
            /\ answer.compression = "None"
            /\ answer.content = ""
            /\ answer.destinationPoints = {}
            /\ answer.destinationSockets = {}
            /\ codec.message = m

\* an Event with a content, destinations, the most tags, a time of life and
\* the marks of a socket was cloned
C25_Witness ==
    /\ codec.operation = "cloneForAnswer"
    /\ codec.origin.type = "Event"
    /\ codec.origin.content # ""
    /\ codec.origin.compression = "Disable"
    /\ codec.origin.destinationSockets # {}
    /\ codec.origin.destinationPoints # {}
    /\ Len(codec.origin.tags) = TagLimit
    /\ codec.origin.maxTimeLife # NoTimeLife
    /\ codec.origin.socketDescriptor # -1
    /\ codec.answer.tags = codec.origin.tags
(* ------------------------------ claim C26 ----------------------------- *)

\* the optional members of m that hold something else than the value a
\* constructed message has (message.h:422-430)
NonDefault(m) ==
    {name \in {"flags2", "tags", "maxTimeLife", "proxyId", "accessId", "content"} :
        CASE name = "flags2" -> m.flags2 # 0
          [] name = "tags" -> Len(m.tags) > 0
          [] name = "maxTimeLife" -> m.maxTimeLife # NoTimeLife
          [] name = "proxyId" -> m.proxyId # 0
          [] name = "accessId" -> m.accessId # ""
          [] name = "content" -> m.content # ""}

\* the values written after the five leading ones for the members named
Trailing(m, names) ==
    (IF "flags2" \in names THEN 1 ELSE 0)
        + (IF "tags" \in names THEN 1 + Len(m.tags) ELSE 0)
        + Cardinality(names \ {"flags2", "tags"})

\* the optional members of a message, one by one
Optional(m) ==
    <<m.flags2, m.tags, m.maxTimeLife, m.proxyId, m.accessId, m.content>>

C27_AsClaimed ==
    /\ Len(codec.message.tags) <= TagLimit
    /\ codec.operation = "setTags" =>
          codec.message.tags =
              IF Len(codec.val) > TagLimit THEN SubSeq(codec.val, 1, TagLimit)
              ELSE codec.val
    /\ (codec.operation = "fromQBinary" /\ Len(codec.origin.tags) = TagLimit) =>
          codec.message.tags = codec.origin.tags

\* C27, for the operations that keep the limit: setTags leaves at most 255
\* tags, the first 255 of a longer list and the whole of a list of 255;
\* setTag and the JSON decoder leave at most 255 tags when the message or
\* the array they start from has at most 255; the qbinary decoder always
\* does, and a message of 255 tags comes back from the qbinary encoding
\* with the same tags.
C27_WithinLimit ==
    /\ codec.operation \in {"setTags", "fromQBinary"} =>
          Len(codec.message.tags) <= TagLimit
    /\ codec.operation = "setTags" =>
          codec.message.tags =
              IF Len(codec.val) > TagLimit THEN SubSeq(codec.val, 1, TagLimit)
              ELSE codec.val
    /\ (codec.operation = "setTag" /\ Len(codec.origin.tags) <= TagLimit) =>
          Len(codec.message.tags) <= TagLimit
    /\ (codec.operation = "fromJson" /\ "tags" \in codec.doc.members
            /\ Len(codec.doc.tags) <= TagLimit) =>
          Len(codec.message.tags) <= TagLimit
    /\ (codec.operation = "fromQBinary" /\ Len(codec.origin.tags) = TagLimit) =>
          codec.message.tags = codec.origin.tags

\* the JSON decoder was given an array of 256 tags and the message holds
\* them all
C27_JsonOverLimit ==
    /\ codec.operation = "fromJson"
    /\ Len(codec.doc.tags) = TagLimit + 1
    /\ Len(codec.message.tags) = TagLimit + 1
(* ------------------------------ claim C28 ----------------------------- *)

\* C28: the socket a listener accepted emits connected only when it is in
\* the socket set of the listener: whenever connected has been emitted on
\* the listener side the socket is inside the listener, and the step that
\* emits it starts from a state where it already is.
C28_ConnectedInsideListener ==
    /\ [](connectedCount["listener"] > 0 => isInsideListener)
    /\ [][connectedCount'["listener"] # connectedCount["listener"]
            => isInsideListener]_vars

\* the accepted socket emitted connected, its worker having been started
\* before the listener inserted it
C28_Witness ==
    /\ connectedCount["listener"] = 1
    /\ isInsideListener
    /\ protocolCompatible["listener"] = "Yes"
(* ------------------------------ claim C29 ----------------------------- *)

\* this step is a call of Listener::send
IsListenerSend == listenerSockets'.count # listenerSockets.count

\* C29: when Listener::send is called with an Event, send() of a socket of
\* the listener is called if the worker of the socket is running and its
\* descriptor is not in the exclusion set, and is not called if its
\* descriptor is in the exclusion set or its worker is not running;
\* no error is logged instead.
C29_EventToAllButExcluded ==
    [][(IsListenerSend /\ listenerSockets'.call.message.type = "Event") =>
          LET call == listenerSockets'.call IN
          /\ \A fd \in ListenerFds :
                /\ (SocketRunning(fd) /\ socketDescriptor(fd) \notin call.excludeSockets)
                      => fd \in call.offered
                /\ socketDescriptor(fd) \in call.excludeSockets => fd \notin call.offered
                /\ ~SocketRunning(fd) => fd \notin call.offered
          /\ ~call.error]_vars

\* an Event was sent with sockets 5 and 7 excluded while the three sockets
\* were connected: socket 6 alone was offered it
C29_Witness ==
    /\ listenerSockets.count > 0
    /\ listenerSockets.call.message.type = "Event"
    /\ listenerSockets.call.excludeSockets = {5, 7}
    /\ listenerSockets.call.list = ListenerFds
    /\ listenerSockets.call.offered = {6}
(* ------------------------------ claim C30 ----------------------------- *)

\* the running sockets of the listener whose descriptor is in the set
WithDescriptorIn(set) ==
    {fd \in ListenerFds : SocketRunning(fd) /\ socketDescriptor(fd) \in set}

SourcePoint == CHOOSE i \in Points : PointDescriptor[i] = route.call.message.socketDescriptor

\* the last call of forwarding relayed a Command
RelayedCommand ==
    /\ route.count > 0
    /\ route.call.message.type = "Command"
    /\ route.call.res
    /\ route.call.message.socketDescriptor \in {PointDescriptor[i] : i \in Points}

\* the record the last call appended to the source point
LastRecord ==
    LET records == route.point[SourcePoint].transferredCommands
    IN  records[Len(records)]

\* C31, as claimed: when forwarding relays a Command, the record appended
\* to the source point holds the id of the message and, as its time, the
\* maximum time of life of the message when it has one, and the time of
\* the call plus 10 seconds when it has none.
C31_AsClaimed ==
    RelayedCommand =>
        LET message == route.call.message IN
        /\ Len(route.point[SourcePoint].transferredCommands)
              = Len(removeExpiredTime(route.call.before[SourcePoint], route.call.curTime)) + 1
        /\ LastRecord[1] = message.id
        /\ LastRecord[2] = IF message.maxTimeLife # NoTimeLife THEN message.maxTimeLife
                           ELSE route.call.curTime + RecordLife

\* C31, as the code has it: the time of the record is the maximum time of
\* life of the message unless that is 0, and the time of the call plus 10
\* seconds when it is 0; a Command without a time of life is recorded with
\* quint64(-1).
C31_RecordsAsCoded ==
    RelayedCommand =>
        LET message == route.call.message IN
        /\ Len(route.point[SourcePoint].transferredCommands)
              = Len(removeExpiredTime(route.call.before[SourcePoint], route.call.curTime)) + 1
        /\ LastRecord[1] = message.id
        /\ LastRecord[2] = IF message.maxTimeLife # 0 THEN message.maxTimeLife
                           ELSE route.call.curTime + RecordLife

\* a Command created without a time of life was relayed from point 1, and
\* its record holds no time after which it is swept
C31_NoLimitRecorded ==
    /\ RelayedCommand
    /\ route.call.message.maxTimeLife = NoTimeLife
    /\ SourcePoint = 1
    /\ LastRecord = <<route.call.message.id, NoTimeLife>>
(* ------------------------------ claim C32 ----------------------------- *)

\* the other point
OtherPoint(i) == CHOOSE j \in Points : j # i

\* the last call of forwarding was given an Answer of a relayed command
\* that came from the socket of one of the two points
AnswerCalled ==
    /\ route.count > 0
    /\ route.call.message.type = "Answer"
    /\ route.call.message.command \in RoutedCommands
    /\ \E i \in Points : /\ PointDescriptor[i] = route.call.message.socketDescriptor
                          /\ route.point[i].socket

\* the records of point i that were not expired at the last call
Unexpired(i) == removeExpiredTime(route.call.before[i], route.call.curTime)

\* the messages of the type with the id that were relayed from the socket
\* of point i, as positions in the list of the relayed messages
RelayedFrom(i, type, id) ==
    {k \in 1..Len(route.relayed) :
        /\ route.relayed[k].type = type
        /\ route.relayed[k].id = id
        /\ route.relayed[k].socketDescriptor = PointDescriptor[i]}

Expired(rec) == U64Less(rec[2], route.call.curTime)

\* the records point i held before the last call whose time has not passed
StillValid(i) == SelectSeq(route.call.before[i], LAMBDA rec : ~Expired(rec))

\* the last call was given a message whose command is in the allow-set
AllowedCalled ==
    /\ route.count > 0
    /\ route.call.message.command \in RoutedCommands

\* C33 as stated: after every call of forwarding, the call with a command
\* outside the allow-set included, neither point holds a record whose time
\* has passed.
C33_AsClaimed ==
    route.count > 0 =>
        \A i \in Points :
            \A k \in 1..Len(route.point[i].transferredCommands) :
                ~Expired(route.point[i].transferredCommands[k])

\* C33: after a call of forwarding with a command of the allow-set,
\* whatever the call returns, neither point holds a record whose time has
\* passed, and the records whose time has not passed are all there in
\* their order, save the one record a relayed Answer takes and the one a
\* relayed Command adds at the end; a call with a command outside the
\* allow-set leaves the records of both points as they were, the expired
\* ones included.
C33_AllowedCallsSweep ==
    /\ AllowedCalled =>
          \A i \in Points :
              LET after == route.point[i].transferredCommands IN
              /\ \A k \in 1..Len(after) : ~Expired(after[k])
              /\ \/ after = StillValid(i)
                 \/ /\ route.call.res
                    /\ route.call.message.type = "Command"
                    /\ Len(after) = Len(StillValid(i)) + 1
                    /\ SubSeq(after, 1, Len(StillValid(i))) = StillValid(i)
                 \/ /\ route.call.res
                    /\ route.call.message.type = "Answer"
                    /\ \E k \in 1..Len(StillValid(i)) : after = RemoveAt(StillValid(i), k)
    /\ (route.count > 0 /\ ~AllowedCalled) =>
          \A i \in Points : route.point[i].transferredCommands = route.call.before[i]

\* a call with an allowed command that got no destination (the message
\* came from a third socket) found on point 1 a record whose time had
\* passed and one whose time had not: the first is gone, the second stays
C33_Witness ==
    /\ AllowedCalled
    /\ ~route.call.res
    /\ route.call.sent = {}
    /\ Len(route.call.before[1]) = 2
    /\ Len(route.point[1].transferredCommands) = 1
    /\ route.point[1].transferredCommands = StillValid(1)

\* ---------------------------------------------------------------------
\* Claim C34
\* ---------------------------------------------------------------------

\* C34: once the stop flag of a worker is raised, in whatever state of the
\* connection, the worker comes to the end of Socket::run: it has left the
\* loop and closed the socket.
C34_StopTerminates ==
    \A s \in Sides :
        threadStop[s] ~> (pc[s] = "closed" /\ sock[s] = "closed")

\* the client had sent a CloseConnection command and the link hung, so that
\* no answer could come; it was stopped, and its worker has left the loop
\* and closed the socket, the listener's worker still running
C34_Witness ==
    /\ threadStop["client"]
    /\ ~threadStop["listener"]
    /\ stalled
    /\ commandCloseConnectionId["client"] # NullId
    /\ pc["client"] = "closed"
    /\ sock["client"] = "closed"
    /\ isRunning("listener")

\* ---------------------------------------------------------------------
\* Claim C35
\* ---------------------------------------------------------------------

\* the places of the worker whose next step begins with CHECK_SOCKET_ERROR:
\* the write of the signature (base.cpp:561-562), the head of the loop
\* (base.cpp:822-823) and the receiving part (base.cpp:1146-1147)
SocketChecks == {"sigSend", "top", "recv"}

\* the worker of side s takes a step
WorkerSteps(s) ==
    \/ pc'[s] # pc[s]
    \/ delivered'[s] # delivered[s]
    \/ acceptMessages'[s] # acceptMessages[s]
    \/ internalMessages'[s] # internalMessages[s]

\* C35: a worker that comes to a check of the socket with the socket no
\* longer connected leaves the loop at that step, writing and delivering
\* nothing; a worker that left the loop delivers nothing more; when the
\* worker has ended, the socket is closed, _initSocketDescriptor is -1, and
\* disconnected() was emitted once, with the descriptor the connection had;
\* it was emitted already when the socket left the connected state.
C35_LeavesOnSocketError ==
    /\ [](\A s \in Sides :
            /\ pc[s] = "closed" =>
                  /\ sock[s] = "closed"
                  /\ initSocketDescriptor[s] = -1
                  /\ disconnectedEmitted[s] = <<SocketFd[s]>>
            /\ sock[s] = "unconnected" =>
                  /\ initSocketDescriptor[s] = -1
                  /\ disconnectedEmitted[s] = <<SocketFd[s]>>
            /\ sock[s] = "connected" =>
                  /\ initSocketDescriptor[s] = SocketFd[s]
                  /\ disconnectedEmitted[s] = <<>>)
    /\ [][\A s \in Sides :
            /\ (sock[s] = "unconnected" /\ pc[s] \in SocketChecks /\ WorkerSteps(s))
                  => /\ pc'[s] = "close"
                     /\ delivered'[s] = delivered[s]
                     /\ written'[s] = written[s]
                     /\ wire'[s] = wire[s]
            /\ pc[s] \in {"close", "closed"}
                  => /\ delivered'[s] = delivered[s]
                     /\ written'[s] = written[s]
                     /\ pc'[s] \in {"close", "closed"}]_vars

\* the listener-side worker, not stopped and with no close or echo awaited,
\* had parsed a message of the application when it found the socket no
\* longer connected: it has left the loop with the message undelivered, and
\* disconnected() was emitted with the descriptor of the connection
C35_Witness ==
    /\ pc["listener"] = "close"
    /\ sock["listener"] = "unconnected"
    /\ ~threadStop["listener"]
    /\ commandCloseConnectionId["listener"] = NullId
    /\ ~echoExpired["listener"]
    /\ acceptMessages["listener"] # <<>>
    /\ delivered["listener"] = <<>>
    /\ initSocketDescriptor["listener"] = -1
    /\ disconnectedEmitted["listener"] = <<SocketFd["listener"]>>

\* ---------------------------------------------------------------------
\* Claim C36
\* ---------------------------------------------------------------------

SetterNames == {"setMessageFormat", "setEncryption", "setEchoTimeout"}

\* a setter is called in this step
SetterCalled ==
    /\ apiCalls'.count = apiCalls.count + 1
    /\ apiCalls'.last.name \in SetterNames

\* the three properties of side s after the step
PropertiesAfter(s) == <<messageFormat'[s], encryption'[s], echoTimeout'[s]>>

\* what the call that was made leaves of the properties when it takes effect
SetterEffect(c) ==
    CASE c.name = "setMessageFormat" -> <<c.val, c.before[2], c.before[3]>>
      [] c.name = "setEncryption"    -> <<c.before[1], c.val, c.before[3]>>
      [] c.name = "setEchoTimeout"   -> <<c.before[1], c.before[2], c.val * MsPerSecond>>

\* C36 as stated: a setter called on a socket that is connected or
\* listener-side changes nothing, and on a client socket that is not
\* connected sets the named property and nothing else.
C36_AsClaimed ==
    [][SetterCalled =>
          LET c == apiCalls'.last IN
          IF c.connected \/ isListenerSide(c.side)
          THEN PropertiesAfter(c.side) = c.before
          ELSE PropertiesAfter(c.side) = SetterEffect(c)]_vars

\* C36: a setter called on a listener-side socket, or on a socket that
\* socketIsConnected() reports as connected, changes nothing; otherwise, on
\* a client socket that is not connected or whose worker, having connected
\* it, still holds the socket lock, it sets the named property and nothing
\* else; the echo timeout is stored in milliseconds and echoTimeout() gives
\* back the seconds that were set.
C36_SettersGuarded ==
    [][SetterCalled =>
          LET c == apiCalls'.last IN
          /\ \A s \in Sides : s # c.side =>
                PropertiesAfter(s) = <<messageFormat[s], encryption[s], echoTimeout[s]>>
          /\ IF (c.connected /\ ~c.locked) \/ isListenerSide(c.side)
             THEN PropertiesAfter(c.side) = c.before
             ELSE /\ PropertiesAfter(c.side) = SetterEffect(c)
                  /\ c.name = "setEchoTimeout" =>
                        echoTimeoutSeconds(echoTimeout'[c.side]) = c.val]_vars

\* setEchoTimeout(1) was called on the client socket before it connected
\* and stored 1000; a second call, setEchoTimeout(0) on the connected
\* socket, left the 1000 in place
C36_Witness ==
    /\ apiCalls.count = 2
    /\ apiCalls.last.name = "setEchoTimeout"
    /\ apiCalls.last.side = "client"
    /\ apiCalls.last.val = 0
    /\ apiCalls.last.connected
    /\ ~apiCalls.last.locked
    /\ apiCalls.last.before = <<"QBinary", FALSE, 1000>>
    /\ echoTimeout["client"] = 1000
    /\ sock["client"] = "connected"

\* ---------------------------------------------------------------------
\* Claim C37
\* ---------------------------------------------------------------------

\* remove() is called in this step
RemoveCalled ==
    /\ apiCalls'.count = apiCalls.count + 1
    /\ apiCalls'.last.name = "remove"

\* the messages of a list whose command is not the given one, in their order
Others(list, command) == SelectSeq(list, LAMBDA m : m.command # command)

\* C37: remove(command) leaves in each of the three queues the messages of
\* the other commands, all of them and in their order, and none of the
\* given command; it leaves the Normal counter and the queues of the other
\* socket as they were; a message it took out of a queue is never written
\* to the socket.
C37_RemoveExactly ==
    /\ [](\A s \in Sides : \A k \in 1..Len(written[s]) :
              written[s][k].id \notin apiCalls.removed)
    /\ [][RemoveCalled =>
            LET c == apiCalls'.last
                s == c.side
            IN  /\ messagesHigh'[s] = Others(messagesHigh[s], c.val)
                /\ messagesNorm'[s] = Others(messagesNorm[s], c.val)
                /\ messagesLow'[s] = Others(messagesLow[s], c.val)
                /\ messagesNormCounter' = messagesNormCounter
                /\ written' = written
                /\ \A p \in Sides : p # s =>
                      /\ messagesHigh'[p] = messagesHigh[p]
                      /\ messagesNorm'[p] = messagesNorm[p]
                      /\ messagesLow'[p] = messagesLow[p]]_vars

\* remove("User") has taken two messages out of the Normal queue and left
\* the message of the other command between them; the worker has written
\* that one since
C37_Witness ==
    /\ apiCalls.last.name = "remove"
    /\ apiCalls.last.val = "User"
    /\ Len(apiCalls.last.before[2]) = 3
    /\ apiCalls.last.before[2][1].command = "User"
    /\ apiCalls.last.before[2][2].command = "Private"
    /\ apiCalls.last.before[2][3].command = "User"
    /\ Cardinality(apiCalls.removed) = 2
    /\ messagesNorm["client"] = <<>>
    /\ \E k \in 1..Len(written["client"]) :
          written["client"][k].id = apiCalls.last.before[2][2].id

\* ---------------------------------------------------------------------
\* Claim C38
\* ---------------------------------------------------------------------

\* the commands the receiving part handles itself
ServiceCommands == {"ProtocolCompatible", "CloseConnection", "EchoConnection"}

\* the worker of side s parses the frame at the head of what it can read
Parses(s) ==
    /\ pc[s] = "recv"
    /\ wire[Peer(s)] # <<>>
    /\ wire'[Peer(s)] = Tail(wire[Peer(s)])

\* the messages of a list that are none of the service commands
Application(list) == SelectSeq(list, LAMBDA m : m.command \notin ServiceCommands)

\* where the message of an id stands in a list
PositionOf(list, id) == CHOOSE k \in 1..Len(list) : list[k].id = id

\* C38: a parsed message that is none of ProtocolCompatible, CloseConnection
\* and EchoConnection is put into acceptMessages when the status is Yes and
\* is otherwise discarded with a log line; acceptMessages grows in no other
\* way, and such a message is emitted only from its head with the status
\* Yes; a discarded message is never emitted; the emitted ones are emitted
\* in the order the peer wrote them.
C38_DeliveredOnlyIfYes ==
    /\ [](\A s \in Sides :
            LET app == Application(delivered[s])
            IN  /\ \A k \in 1..Len(app) :
                      /\ app[k].id \notin dropLog[s]
                      /\ \E j \in 1..Len(written[Peer(s)]) :
                            written[Peer(s)][j].id = app[k].id
                /\ \A i, j \in 1..Len(app) :
                      i < j => PositionOf(written[Peer(s)], app[i].id)
                                 < PositionOf(written[Peer(s)], app[j].id))
    /\ [][\A s \in Sides :
            /\ Parses(s) /\ Head(wire[Peer(s)]).msg.command \notin ServiceCommands =>
                  LET m == Head(wire[Peer(s)]).msg
                  IN  /\ delivered'[s] = delivered[s]
                      /\ IF protocolCompatible[s] = "Yes"
                         THEN /\ acceptMessages'[s] = Append(acceptMessages[s], m)
                              /\ dropLog'[s] = dropLog[s]
                         ELSE /\ acceptMessages'[s] = acceptMessages[s]
                              /\ m.id \in dropLog'[s]
            /\ Len(acceptMessages'[s]) > Len(acceptMessages[s]) =>
                  /\ Parses(s)
                  /\ protocolCompatible[s] = "Yes"
            /\ Application(delivered'[s]) # Application(delivered[s]) =>
                  /\ protocolCompatible[s] = "Yes"
                  /\ acceptMessages[s] # <<>>
                  /\ acceptMessages'[s] = Tail(acceptMessages[s])
                  /\ delivered'[s] = Append(delivered[s], Head(acceptMessages[s]))]_vars

\* the listener discarded, while its status was Unknown, a message that
\* came ahead of the ProtocolCompatible command; its status is Yes now and
\* it has emitted a message that came later, and not the early one
C38_Witness ==
    /\ protocolCompatible["listener"] = "Yes"
    /\ <<"client", "User", 0>> \in dropLog["listener"]
    /\ Len(delivered["listener"]) = 1
    /\ delivered["listener"][1].command = "User"
    /\ delivered["listener"][1].id # <<"client", "User", 0>>
    /\ wire["client"] = <<>>
    /\ acceptMessages["listener"] = <<>>

\* the listener, whose status is No, has discarded a message of the client,
\* whose status is Yes, and has emitted nothing
C38_DiscardedAtNo ==
    /\ protocolCompatible["listener"] = "No"
    /\ protocolCompatible["client"] = "Yes"
    /\ \E k \in 1..Len(written["client"]) :
          /\ written["client"][k].command = "User"
          /\ written["client"][k].id \in dropLog["listener"]
    /\ wire["client"] = <<>>
    /\ delivered["listener"] = <<>>

\* the listener has emitted two messages of the client, the one sent second
\* and written first before the other
C38_OrderReached ==
    /\ Len(delivered["listener"]) = 2
    /\ delivered["listener"][1].command = "User"
    /\ delivered["listener"][2].command = "User"
    /\ delivered["listener"][1].id[3] > delivered["listener"][2].id[3]

\* ---------------------------------------------------------------------
\* Claim C39
\* ---------------------------------------------------------------------

\* the number of messages in the three send queues of side s
Queued(s) == Len(messagesHigh[s]) + Len(messagesNorm[s]) + Len(messagesLow[s])

\* C39: while internalMessages holds a message, no message leaves the send
\* queues of the application, whatever its priority, and what is written
\* is the head of internalMessages; internalMessages changes only by
\* messages added at its end or, in the sending part, its head taken, so
\* that the messages of the engine are written in the order they were
\* generated.
C39_InternalFirst ==
    [][\A s \in Sides :
          /\ internalMessages[s] # <<>> =>
                /\ Queued(s)' >= Queued(s)
                /\ written'[s] # written[s] =>
                      /\ written'[s] = Append(written[s], Head(internalMessages[s]))
                      /\ internalMessages'[s] = Tail(internalMessages[s])
          /\ \/ internalMessages'[s] = internalMessages[s]
             \/ /\ internalMessages[s] # <<>>
                /\ internalMessages'[s] = Tail(internalMessages[s])
                /\ pc[s] = "send"
             \/ /\ Len(internalMessages'[s]) > Len(internalMessages[s])
                /\ SubSeq(internalMessages'[s], 1, Len(internalMessages[s]))
                      = internalMessages[s]]_vars

\* in the sending part, the status being Yes and the first messages of the
\* engine written, an answer of the engine and a High-priority message of
\* the application wait together: the next write is the answer
C39_Witness ==
    \E s \in Sides :
        /\ pc[s] = "send"
        /\ protocolCompatible[s] = "Yes"
        /\ socketIsConnectedInternal(s)
        /\ ~socketBytesToWrite(s)
        /\ messagesHigh[s] # <<>>
        /\ internalMessages[s] # <<>>
        /\ Head(internalMessages[s]).type = "Answer"
        /\ written[s] # <<>>
        /\ \A k \in 1..Len(written[s]) : written[s][k].command # "User"

\* ---------------------------------------------------------------------
\* Claim C40
\* ---------------------------------------------------------------------

\* the number of times the status took a value other than the one it had
StatusChanges(s) ==
    Cardinality({k \in 1..(Len(protocolCompatibleHeld[s]) - 1) :
                    protocolCompatibleHeld[s][k] # protocolCompatibleHeld[s][k + 1]})

\* the worker of side s parses a ProtocolCompatible message with its status
\* no longer Unknown
ParsesSecond(s) ==
    /\ Parses(s)
    /\ Head(wire[Peer(s)]).msg.command = "ProtocolCompatible"
    /\ protocolCompatible[s] # "Unknown"

\* the steps of the status between the turns of the worker, the emission of
\* connected and the handling of a later ProtocolCompatible message
StatusSteps ==
    [][\A s \in Sides :
          /\ protocolCompatible'[s] # protocolCompatible[s] =>
                protocolCompatible[s] = "Unknown"
          /\ connectedCount'[s] # connectedCount[s] =>
                /\ connectedCount'[s] = connectedCount[s] + 1
                /\ protocolCompatible[s] = "Unknown"
                /\ protocolCompatible'[s] = "Yes"
          /\ ParsesSecond(s) =>
                /\ protocolCompatible'[s] = protocolCompatible[s]
                /\ protocolCompatibleHeld'[s] = protocolCompatibleHeld[s]
                /\ connectedCount'[s] = connectedCount[s]
                /\ internalMessages'[s] = internalMessages[s]]_vars

\* C40 as it is stated: the status takes a new value at most once, never
\* going from Yes to No or from No to Yes; connected is emitted at most once,
\* in the step that makes the status Yes; a later ProtocolCompatible
\* message changes nothing of it.
C40_AsClaimed ==
    /\ [](\A s \in Sides :
            /\ StatusChanges(s) <= 1
            /\ connectedCount[s] <= 1)
    /\ StatusSteps

\* C40, what the worker keeps: from one turn of the worker to the next the
\* status leaves Unknown at most once and is not changed after that; the
\* values the member is given are Yes, or Yes and then No, the last being
\* the status; connected is emitted at most once, in the step that makes
\* the status Yes; a later ProtocolCompatible message changes nothing of it.
C40_StatusSettles ==
    /\ [](\A s \in Sides :
            /\ protocolCompatibleHeld[s] \in
                  {<<"Unknown">>, <<"Unknown", "Yes">>, <<"Unknown", "Yes", "No">>}
            /\ protocolCompatibleHeld[s][Len(protocolCompatibleHeld[s])]
                  = protocolCompatible[s]
            /\ connectedCount[s] = (IF protocolCompatible[s] = "Yes" THEN 1 ELSE 0))
    /\ StatusSteps

\* the listener, which checks the versions, has handled the command of a
\* client of a disjoint window: its status was given Yes and then No, and
\* connected was not emitted; the client has parsed nothing since
C40_Witness ==
    /\ protocolCompatibleHeld["listener"] = <<"Unknown", "Yes", "No">>
    /\ protocolCompatible["listener"] = "No"
    /\ connectedCount["listener"] = 0
    /\ ~ProtocolCompatibleFn("listener", version["client"][1], version["client"][2])

\* the listener has emitted to the application a ProtocolCompatible command
\* that the client's application sent after the first one; the status and
\* the count of connected are as the first one left them
C40_SecondReached ==
    /\ \E k \in 1..Len(delivered["listener"]) :
          delivered["listener"][k].command = "ProtocolCompatible"
    /\ protocolCompatibleHeld["listener"] = <<"Unknown", "Yes">>
    /\ connectedCount["listener"] = 1
====
